---- MODULE Spec2Model ----
(***************************************************************************)
(* Bastion Browser, main process: the privacy network layer (tracker       *)
(* blocking, HTTPS upgrade, header mutation), the permission handlers and  *)
(* the privacy statistics.                                                 *)
(*                                                                         *)
(* Strings that the code takes apart are modelled structurally:            *)
(*   - a hostname is the sequence of its dot-separated labels              *)
(*     ("ads.doubleclick.net" is <<"ads","doubleclick","net">>, the empty  *)
(*     hostname is <<>>, a trailing dot is a trailing "" label);           *)
(*   - a raw URL string is a record [form, scheme, slashes, host]: form    *)
(*     "empty" is "" / undefined, form "garbage" is a non-empty string     *)
(*     that new URL() rejects, form "url" is scheme ++ slashes ++ host;    *)
(*   - a header object is the sequence of its [k, v] entries in insertion  *)
(*     order.                                                              *)
(***************************************************************************)
EXTENDS Integers, Sequences, FiniteSets, TLC

VARIABLES
    privacyConfig,               \* let privacyConfig
    privacyStats,                \* let privacyStats (the counters)
    privacyStatsBroadcastTimer,  \* TRUE while the 220 ms timer is pending
    hook,                        \* handler that ran last, "idle" once its reply was taken
    details,                     \* the arguments that handler received
    reply,                       \* what the handler answered
    fnIn,                        \* inputs of the pure functions
    fnOut,                       \* their results
    mainWindow,                  \* TRUE while mainWindow is a live BrowserWindow
    scheduledCallbacks,          \* setTimeout callbacks of the stats timer not yet run
    windowsCreated,              \* how often createWindow() ran
    statsPushes,                 \* "privacy:stats" messages sent: how many, and the last one
    updateStatus,                \* let updateStatus
    githubUpdateMetadata,        \* let githubUpdateMetadata (and github-update.json)
    disk,                        \* the files of the updates directory
    cycles,                      \* the calls of checkGitHubReleaseZipUpdate in flight
    lastReturned,                \* what the call that returned last resolved to
    applying,                    \* the calls of applyGitHubReleaseZipUpdate in flight
    updateConfig,                \* let updateConfig
    app,                         \* the process: its build, and how far it has started
    updateStatusSent,            \* the last "updates:status" message, and the window it went to
    updateCheckTimer,            \* setInterval timers of the update schedule that are armed
    readyToShowPending,          \* TRUE while the window's once("ready-to-show") listener waits
    state,                       \* the renderer's state: tabs, activeTabId, closedTabs
    called                       \* the tab function of the renderer that ran last

privVars == <<privacyConfig, privacyStats, privacyStatsBroadcastTimer, hook, details, reply>>
fnVars == <<fnIn, fnOut>>
rendererVars == <<state, called>>
pushVars == <<mainWindow, scheduledCallbacks, windowsCreated, statsPushes>>
updVars == <<updateStatus, githubUpdateMetadata, disk, cycles, lastReturned, applying>>
hostVars == <<updateConfig, app, updateStatusSent, updateCheckTimer, readyToShowPending>>
hostRest == <<updateConfig, app, updateCheckTimer, readyToShowPending>>
vars == <<privacyConfig, privacyStats, privacyStatsBroadcastTimer, hook, details, reply, fnIn, fnOut,
          mainWindow, scheduledCallbacks, windowsCreated, statsPushes,
          updateStatus, githubUpdateMetadata, disk, cycles, lastReturned, applying,
          updateConfig, app, updateStatusSent, updateCheckTimer, readyToShowPending,
          state, called>>

(***************************************************************************)
(* Bounds                                                                  *)
(***************************************************************************)
\* Each counted event needs MaxEvents to be above the events counted so far.
MaxEvents == 1
\* Longest generated hostname (in labels) of the host-matcher inputs.
MaxLabels == 3

(***************************************************************************)
(* Program constants                                                       *)
(***************************************************************************)
TRACKER_HOST_RULES ==
    { <<"doubleclick", "net">>, <<"google-analytics", "com">>, <<"googletagmanager", "com">>,
      <<"googlesyndication", "com">>, <<"adservice", "google", "com">>, <<"ads", "yahoo", "com">>,
      <<"facebook", "net">>, <<"connect", "facebook", "net">>, <<"scorecardresearch", "com">>,
      <<"hotjar", "com">>, <<"segment", "io">>, <<"mixpanel", "com">>, <<"taboola", "com">>,
      <<"outbrain", "com">>, <<"adnxs", "com">>, <<"criteo", "com">>, <<"quantserve", "com">> }

TRACKER_RESOURCE_TYPES ==
    { "script", "image", "xhr", "fetch", "subFrame", "ping", "media", "font",
      "stylesheet", "object", "webSocket" }

LOOPBACK_HOSTS ==
    { <<"localhost">>, <<"127", "0", "0", "1">>, <<"::1">>, <<"[::1]">> }

FINGERPRINTING_PERMISSIONS ==
    { "idle-detection", "window-management", "display-capture", "midi", "midiSysex",
      "midi-sysex", "pointerLock", "background-sync", "payment-handler", "speaker-selection" }

ALLOWED_PERMISSIONS == { "fullscreen", "notifications", "clipboard-read", "media" }

DEFAULT_PRIVACY_CONFIG ==
    [ blockTrackers |-> TRUE, upgradeHttps |-> TRUE, sendDoNotTrack |-> TRUE,
      sendGlobalPrivacyControl |-> TRUE, blockThirdPartyCookies |-> TRUE,
      blockFingerprintingPermissions |-> TRUE, clearDataOnExit |-> FALSE ]

\* The renderer's own defaults, which it merges under every config it receives.
RENDERER_DEFAULT_PRIVACY_CONFIG ==
    [ blockTrackers |-> TRUE, upgradeHttps |-> TRUE, sendDoNotTrack |-> TRUE,
      sendGlobalPrivacyControl |-> TRUE, blockThirdPartyCookies |-> TRUE,
      stripThirdPartyReferer |-> TRUE,
      blockFingerprintingPermissions |-> TRUE, clearDataOnExit |-> FALSE ]

createEmptyPrivacyStats ==
    [ blockedRequests |-> 0, upgradedToHttps |-> 0, strippedCookieHeaders |-> 0,
      blockedPermissions |-> 0 ]

(***************************************************************************)
(* String helpers                                                          *)
(***************************************************************************)
\* String.prototype.toLowerCase on one label / scheme / header name.
toLowerCase(s) ==
    CASE s = "HTTP:" -> "http:"
      [] s = "Ads" -> "ads"
      [] s = "DoubleClick" -> "doubleclick"
      [] s = "Net" -> "net"
      [] s = "Www" -> "www"
      [] s = "A" -> "a"
      [] s = "Com" -> "com"
      [] s = "DNT" -> "dnt"
      [] s = "Dnt" -> "dnt"
      [] s = "Sec-GPC" -> "sec-gpc"
      [] s = "SEC-GPC" -> "sec-gpc"
      [] s = "Cookie" -> "cookie"
      [] s = "COOKIE" -> "cookie"
      [] s = "Referer" -> "referer"
      [] s = "Accept" -> "accept"
      [] s = "UPDATE.ZIP" -> "update.zip"
      [] OTHER -> s

hostToLowerCase(host) == [i \in 1..Len(host) |-> toLowerCase(host[i])]

\* value.endsWith("." + rule), and value === rule when the lengths agree.
EndsWithLabels(value, rule) ==
    /\ Len(value) >= Len(rule)
    /\ \A i \in 1..Len(rule) : value[Len(value) - Len(rule) + i] = rule[i]

\* A label of one to three decimal digits, \d{1,3}.
DigitLabels == { "0", "1", "7", "10", "127", "168", "192" }

\* /^\d{1,3}(\.\d{1,3}){3}$/.test(value)
IsIPv4Literal(value) ==
    /\ Len(value) = 4
    /\ \A i \in 1..4 : value[i] \in DigitLabels

(***************************************************************************)
(* URL parsing                                                             *)
(***************************************************************************)
NullUrl == [ok |-> FALSE, protocol |-> "", hostname |-> <<>>]

toUrlObject_with_base_fallback(input) ==
    IF input.form = "url" /\ input.host # <<>>
    THEN [ok |-> TRUE, protocol |-> toLowerCase(input.scheme), hostname |-> hostToLowerCase(input.host)]
    ELSE [ok |-> TRUE, protocol |-> "http:", hostname |-> <<"doubleclick", "net">>]

\* new URL(String(input || "")) inside try/catch: the parse error is caught
\* and null is returned.  The URL parser lower-cases scheme and host and
\* accepts "http:/host" for the special schemes.
toUrlObject(input) ==
    IF input.form = "url" /\ input.host # <<>>
    THEN [ok |-> TRUE, protocol |-> toLowerCase(input.scheme), hostname |-> hostToLowerCase(input.host)]
    ELSE NullUrl

getHostnameFromUrl(input) ==
    LET parsed == toUrlObject(input)
    IN IF parsed.ok THEN hostToLowerCase(parsed.hostname) ELSE <<>>

(***************************************************************************)
(* Host matcher                                                            *)
(***************************************************************************)
\* value.split(".").filter(Boolean)
NonEmptyLabels(value) == SelectSeq(value, LAMBDA l : l # "")

getSiteKey_last_two_for_localhost(hostname) ==
    LET value == hostToLowerCase(hostname)
        parts == NonEmptyLabels(value)
    IN IF value = <<>> THEN <<>>
       ELSE IF value \in LOOPBACK_HOSTS THEN value
       ELSE IF IsIPv4Literal(value) THEN value
       ELSE IF Len(parts) <= 2 THEN value
       ELSE SubSeq(parts, Len(parts) - 1, Len(parts))

getSiteKey(hostname) ==
    LET value == hostToLowerCase(hostname)
        parts == NonEmptyLabels(value)
    IN IF value = <<>> THEN <<>>
       ELSE IF value \in LOOPBACK_HOSTS
               \/ (Len(value) >= 2 /\ value[Len(value)] = "localhost") THEN value
       ELSE IF IsIPv4Literal(value) THEN value
       ELSE IF Len(parts) <= 2 THEN value
       ELSE SubSeq(parts, Len(parts) - 1, Len(parts))

isThirdPartyRequest(requestUrl, initiatorUrl) ==
    LET requestHost == getHostnameFromUrl(requestUrl)
        initiatorHost == getHostnameFromUrl(initiatorUrl)
    IN IF requestHost = <<>> \/ initiatorHost = <<>> THEN FALSE
       ELSE getSiteKey(requestHost) # getSiteKey(initiatorHost)

matchesTrackerHost(hostname) ==
    LET value == hostToLowerCase(hostname)
    IN IF value = <<>> THEN FALSE
       ELSE \E rule \in TRACKER_HOST_RULES : EndsWithLabels(value, rule)

(***************************************************************************)
(* Privacy policy engine: the decisions                                    *)
(***************************************************************************)
shouldBlockTrackerRequest_ignoring_initiator(config, d) ==
    LET resourceType == d.resourceType
        host == getHostnameFromUrl(d.url)
    IN IF ~config.blockTrackers THEN FALSE
       ELSE IF resourceType \notin TRACKER_RESOURCE_TYPES THEN FALSE
       ELSE IF host = <<>> \/ ~matchesTrackerHost(host) THEN FALSE
       ELSE TRUE

\* details.initiator that is not a string, or is "", has form "empty".
shouldBlockTrackerRequest(config, d) ==
    LET resourceType == d.resourceType
        host == getHostnameFromUrl(d.url)
    IN IF ~config.blockTrackers THEN FALSE
       ELSE IF resourceType \notin TRACKER_RESOURCE_TYPES THEN FALSE
       ELSE IF host = <<>> \/ ~matchesTrackerHost(host) THEN FALSE
       ELSE IF d.initiator.form = "empty" THEN resourceType # "mainFrame"
       ELSE isThirdPartyRequest(d.url, d.initiator)

shouldUpgradeToHttps_also_loopback(rawUrl) ==
    LET parsed == toUrlObject(rawUrl)
    IN parsed.ok /\ parsed.protocol = "http:"

shouldUpgradeToHttps(rawUrl) ==
    LET parsed == toUrlObject(rawUrl)
        host == hostToLowerCase(parsed.hostname)
    IN IF ~parsed.ok \/ parsed.protocol # "http:" THEN FALSE
       ELSE IF host = <<>> \/ host \in LOOPBACK_HOSTS
               \/ (Len(host) >= 2 /\ host[Len(host)] = "localhost") THEN FALSE
       ELSE IF IsIPv4Literal(host) THEN FALSE
       ELSE TRUE

\* String(url).replace(/^http:\/\//i, "https://"): rewrites only a string
\* that starts with "http://" in any letter case.
ReplaceHttpScheme(rawUrl) ==
    IF rawUrl.form = "url" /\ toLowerCase(rawUrl.scheme) = "http:" /\ rawUrl.slashes = "//"
    THEN [rawUrl EXCEPT !.scheme = "https:"]
    ELSE rawUrl

(***************************************************************************)
(* Header objects                                                          *)
(***************************************************************************)
\* Index of the first entry whose name matches, 0 for null.
findHeaderKey(headers, name) ==
    LET hits == { i \in 1..Len(headers) : toLowerCase(headers[i].k) = toLowerCase(name) }
    IN IF hits = {} THEN 0 ELSE CHOOSE i \in hits : \A j \in hits : i <= j

setHeader(headers, name, value) ==
    LET key == findHeaderKey(headers, name)
    IN IF key # 0 THEN [headers EXCEPT ![key] = [k |-> headers[key].k, v |-> value]]
       ELSE Append(headers, [k |-> name, v |-> value])

removeHeader_exact_case(headers, name) == SelectSeq(headers, LAMBDA e : e.k # name)

removeHeader(headers, name) ==
    LET key == findHeaderKey(headers, name)
    IN IF key # 0
       THEN [i \in 1..(Len(headers) - 1) |-> IF i < key THEN headers[i] ELSE headers[i + 1]]
       ELSE headers

hasHeader(headers, name) == findHeaderKey(headers, name) # 0

(***************************************************************************)
(* Privacy statistics                                                      *)
(***************************************************************************)
incrementPrivacyStat_counting_down(stats, key) ==
    IF key \in DOMAIN stats THEN [stats EXCEPT ![key] = @ - 1] ELSE stats

\* A key that is no numeric own property of privacyStats is ignored.
incrementPrivacyStat(stats, key) ==
    IF key \in DOMAIN stats THEN [stats EXCEPT ![key] = @ + 1] ELSE stats

\* queuePrivacyStatsBroadcast, called by every effective increment: arms the
\* timer unless one is pending.
TimerAfter(timer, before, after) == IF after # before THEN TRUE ELSE timer

EventsSoFar ==
    privacyStats.blockedRequests + privacyStats.upgradedToHttps
    + privacyStats.strippedCookieHeaders + privacyStats.blockedPermissions

(***************************************************************************)
(* Config payloads.  A JavaScript value is one of the tags "true", "false",*)
(* "string" (some non-boolean) and "undefined"; a payload is              *)
(* [isObject, fields], fields mapping the own keys to tags.                *)
(***************************************************************************)
NoFields == [k \in {} |-> "undefined"]

JsBoolean(b) == IF b THEN "true" ELSE "false"

Field(raw, key) == IF key \in DOMAIN raw THEN raw[key] ELSE "undefined"

sanitizeBoolean(value, fallback) ==
    IF value \in {"true", "false"} THEN value = "true" ELSE fallback

sanitizePrivacyConfig(payload) ==
    LET raw == IF payload.isObject THEN payload.fields ELSE NoFields
    IN [ blockTrackers |->
             sanitizeBoolean(Field(raw, "blockTrackers"), DEFAULT_PRIVACY_CONFIG.blockTrackers),
         upgradeHttps |->
             sanitizeBoolean(Field(raw, "upgradeHttps"), DEFAULT_PRIVACY_CONFIG.upgradeHttps),
         sendDoNotTrack |->
             sanitizeBoolean(Field(raw, "sendDoNotTrack"), DEFAULT_PRIVACY_CONFIG.sendDoNotTrack),
         sendGlobalPrivacyControl |->
             sanitizeBoolean(Field(raw, "sendGlobalPrivacyControl"),
                             DEFAULT_PRIVACY_CONFIG.sendGlobalPrivacyControl),
         blockThirdPartyCookies |->
             sanitizeBoolean(Field(raw, "blockThirdPartyCookies"),
                             DEFAULT_PRIVACY_CONFIG.blockThirdPartyCookies),
         blockFingerprintingPermissions |->
             sanitizeBoolean(Field(raw, "blockFingerprintingPermissions"),
                             DEFAULT_PRIVACY_CONFIG.blockFingerprintingPermissions),
         clearDataOnExit |->
             sanitizeBoolean(Field(raw, "clearDataOnExit"), DEFAULT_PRIVACY_CONFIG.clearDataOnExit) ]

\* { ...privacyConfig, ...raw }
SpreadOver(config, raw) ==
    [ k \in (DOMAIN config) \cup (DOMAIN raw) |->
        IF k \in DOMAIN raw THEN raw[k] ELSE JsBoolean(config[k]) ]

\* state.privacyConfig of the renderer after a config push or refresh:
\* { ...DEFAULT_PRIVACY_CONFIG, ...config }.
RendererPrivacyConfig(config) ==
    [ k \in (DOMAIN RENDERER_DEFAULT_PRIVACY_CONFIG) \cup (DOMAIN config) |->
        IF k \in DOMAIN config THEN config[k] ELSE RENDERER_DEFAULT_PRIVACY_CONFIG[k] ]

(***************************************************************************)
(* Inputs                                                                  *)
(***************************************************************************)
EmptyString == [form |-> "empty", scheme |-> "", slashes |-> "", host |-> <<>>]

\* A non-empty string that is no URL, such as the initiator "null".
NotAUrl == [form |-> "garbage", scheme |-> "", slashes |-> "", host |-> <<>>]

Url(scheme, slashes, host) == [form |-> "url", scheme |-> scheme, slashes |-> slashes, host |-> host]

RequestHosts ==
    { <<"a", "com">>, <<"www", "a", "com">>, <<"doubleclick", "net">>,
      <<"Ads", "DoubleClick", "Net">>, <<"localhost">>, <<"app", "localhost">>,
      <<"127", "0", "0", "1">> }

RequestUrls ==
    { Url(s, "//", h) : s \in {"http:", "https:"}, h \in RequestHosts }
    \cup { Url("HTTP:", "//", h) : h \in { <<"a", "com">>, <<"doubleclick", "net">> } }
    \cup { Url("http:", "/", h) : h \in { <<"a", "com">>, <<"doubleclick", "net">> } }
    \cup { NotAUrl, EmptyString }

HeaderRequestUrls == { Url("https:", "//", h) : h \in RequestHosts } \cup { NotAUrl }

ResourceTypes == { "mainFrame", "script", "webSocket", "cspReport" }

Initiators ==
    { EmptyString, NotAUrl, Url("https:", "//", <<"www", "a", "com">>),
      Url("https:", "//", <<"www", "doubleclick", "net">>) }

Header(k, v) == [k |-> k, v |-> v]

\* Header objects as the network layer hands them over: no two names are
\* equal up to letter case.
RequestHeaderSets ==
    { << >>,
      << Header("Accept", "x") >>,
      << Header("DNT", "1") >>,
      << Header("dnt", "0"), Header("Accept", "x") >>,
      << Header("Sec-GPC", "1"), Header("Cookie", "x") >>,
      << Header("sec-gpc", "0"), Header("Dnt", "1") >>,
      << Header("Cookie", "x"), Header("Referer", "x") >>,
      << Header("Accept", "x"), Header("cookie", "x"), Header("SEC-GPC", "0") >>,
      << Header("Referer", "x"), Header("COOKIE", "x"), Header("DNT", "0"), Header("Sec-GPC", "1") >>,
      << Header("referer", "x") >> }

Permissions ==
    FINGERPRINTING_PERMISSIONS \cup ALLOWED_PERMISSIONS \cup { "geolocation", "openExternal", "" }

PatchKeys ==
    { "blockTrackers", "upgradeHttps", "sendDoNotTrack", "sendGlobalPrivacyControl",
      "blockThirdPartyCookies", "stripThirdPartyReferer", "blockFingerprintingPermissions",
      "clearDataOnExit", "unknownKey" }

\* What privacy:update-config may receive: a non-object, one key with any
\* value, and the eight booleans the settings page sends.
PatchPayloads ==
    { [isObject |-> FALSE, fields |-> NoFields] }
    \cup { [isObject |-> TRUE, fields |-> [k \in {key} |-> v]] :
             key \in PatchKeys, v \in {"true", "false", "string"} }
    \cup { [isObject |-> TRUE, fields |-> [k \in PatchKeys \ {"unknownKey"} |-> v]] :
             v \in {"true", "false"} }

ClearScopes == { "", "all", "COOKIES", "history", "everything" }

NoDetails ==
    [ url |-> EmptyString, resourceType |-> "", initiator |-> EmptyString,
      requestHeaders |-> << >>, permission |-> "",
      payload |-> [isObject |-> FALSE, fields |-> NoFields], scope |-> "" ]

\* calls counts the invocations of the hook's callback (or its return).
NoReply ==
    [ calls |-> 0, cancel |-> FALSE, redirectURL |-> EmptyString,
      requestHeaders |-> << >>, granted |-> FALSE, ok |-> FALSE ]

(***************************************************************************)
(* The handlers, as functions of the config and of their arguments.        *)
(* stat names the counter the handler increments, "" for none.             *)
(***************************************************************************)
onBeforeRequest_upgrade_first(config, d) ==
    LET redirectURL == ReplaceHttpScheme(d.url)
    IN IF config.upgradeHttps /\ shouldUpgradeToHttps(d.url) /\ redirectURL # d.url
       THEN [NoReply EXCEPT !.calls = 1, !.redirectURL = redirectURL] @@ [stat |-> "upgradedToHttps"]
       ELSE IF shouldBlockTrackerRequest(config, d)
       THEN [NoReply EXCEPT !.calls = 1, !.cancel = TRUE] @@ [stat |-> "blockedRequests"]
       ELSE [NoReply EXCEPT !.calls = 1] @@ [stat |-> ""]

\* A malformed URL makes toUrlObject return null, so that neither decision
\* holds and the handler falls through to callback({}).
onBeforeRequest(config, d) ==
    LET redirectURL == ReplaceHttpScheme(d.url)
    IN IF shouldBlockTrackerRequest(config, d)
       THEN [NoReply EXCEPT !.calls = 1, !.cancel = TRUE] @@ [stat |-> "blockedRequests"]
       ELSE IF config.upgradeHttps /\ shouldUpgradeToHttps(d.url) /\ redirectURL # d.url
       THEN [NoReply EXCEPT !.calls = 1, !.redirectURL = redirectURL] @@ [stat |-> "upgradedToHttps"]
       ELSE [NoReply EXCEPT !.calls = 1] @@ [stat |-> ""]

onBeforeSendHeaders_stripping_all_cookies(config, d) ==
    LET h0 == d.requestHeaders
        h1 == IF config.sendDoNotTrack THEN setHeader(h0, "DNT", "1") ELSE removeHeader(h0, "DNT")
        h2 == IF config.sendGlobalPrivacyControl
              THEN setHeader(h1, "Sec-GPC", "1") ELSE removeHeader(h1, "Sec-GPC")
        strip == config.blockThirdPartyCookies /\ hasHeader(h2, "Cookie")
    IN [NoReply EXCEPT !.calls = 1,
                       !.requestHeaders = IF strip THEN removeHeader(h2, "Cookie") ELSE h2]
       @@ [stat |-> IF strip THEN "strippedCookieHeaders" ELSE ""]

onBeforeSendHeaders(config, d) ==
    LET h0 == d.requestHeaders
        h1 == IF config.sendDoNotTrack THEN setHeader(h0, "DNT", "1") ELSE removeHeader(h0, "DNT")
        h2 == IF config.sendGlobalPrivacyControl
              THEN setHeader(h1, "Sec-GPC", "1") ELSE removeHeader(h1, "Sec-GPC")
        strip == /\ config.blockThirdPartyCookies
                 /\ hasHeader(h2, "Cookie")
                 /\ isThirdPartyRequest(d.url, d.initiator)
    IN [NoReply EXCEPT !.calls = 1,
                       !.requestHeaders = IF strip THEN removeHeader(h2, "Cookie") ELSE h2]
       @@ [stat |-> IF strip THEN "strippedCookieHeaders" ELSE ""]

permissionRequestHandler_allowing_unlisted(config, permission) ==
    IF config.blockFingerprintingPermissions /\ permission \in FINGERPRINTING_PERMISSIONS
    THEN [NoReply EXCEPT !.calls = 1, !.granted = FALSE] @@ [stat |-> "blockedPermissions"]
    ELSE [NoReply EXCEPT !.calls = 1, !.granted = TRUE] @@ [stat |-> ""]

permissionRequestHandler(config, permission) ==
    IF config.blockFingerprintingPermissions /\ permission \in FINGERPRINTING_PERMISSIONS
    THEN [NoReply EXCEPT !.calls = 1, !.granted = FALSE] @@ [stat |-> "blockedPermissions"]
    ELSE LET allowed == permission \in ALLOWED_PERMISSIONS
         IN [NoReply EXCEPT !.calls = 1, !.granted = allowed]
            @@ [stat |-> IF allowed THEN "" ELSE "blockedPermissions"]

permissionCheckHandler_counting(config, permission) ==
    IF config.blockFingerprintingPermissions /\ permission \in FINGERPRINTING_PERMISSIONS
    THEN [NoReply EXCEPT !.calls = 1, !.granted = FALSE] @@ [stat |-> "blockedPermissions"]
    ELSE [NoReply EXCEPT !.calls = 1, !.granted = permission \in ALLOWED_PERMISSIONS]

permissionCheckHandler(config, permission) ==
    IF config.blockFingerprintingPermissions /\ permission \in FINGERPRINTING_PERMISSIONS
    THEN [NoReply EXCEPT !.calls = 1, !.granted = FALSE]
    ELSE [NoReply EXCEPT !.calls = 1, !.granted = permission \in ALLOWED_PERMISSIONS]

patchPrivacyConfig(config, patch) ==
    LET raw == IF patch.isObject THEN patch.fields ELSE NoFields
    IN sanitizePrivacyConfig([isObject |-> TRUE, fields |-> SpreadOver(config, raw)])

AllowedScopes == { "all", "cache", "cookies", "storage", "history", "downloads" }

ScopeToLowerCase(scope) == IF scope = "COOKIES" THEN "cookies" ELSE scope

\* Clears session data, history and downloads; the privacy state is not
\* among the things it clears.
clearDataByScope(scope) ==
    LET value == ScopeToLowerCase(IF scope = "" THEN "all" ELSE scope)
    IN [NoReply EXCEPT !.calls = 1, !.ok = value \in AllowedScopes]

WithoutStat(r) == [f \in (DOMAIN r) \ {"stat"} |-> r[f]]

Counted(stats, r) == IF r.stat # "" THEN incrementPrivacyStat(stats, r.stat) ELSE stats

(***************************************************************************)
(* The GitHub release-zip updater: its state.  A tag or version is the     *)
(* sequence of its characters, <<>> standing for "" and for null; a path   *)
(* below the updates directory is [dir, file], NoPath standing for "" and  *)
(* for null; a file is "absent", "partial" (still being written, or cut    *)
(* short) or "complete".                                                   *)
(***************************************************************************)
\* Calls of checkGitHubReleaseZipUpdate that may be in flight together.
MaxCycles == 2

GITHUB_UPDATE_ASSET_NAME == "update.zip"

DEFAULT_UPDATE_CONFIG ==
    [ autoCheck |-> TRUE, autoDownload |-> TRUE, allowPrerelease |-> FALSE,
      useGithubReleaseZip |-> TRUE, autoApplyGithubZip |-> TRUE ]

NoVersion == << >>
NoPath == [dir |-> << >>, file |-> "", ext |-> ""]

createInitialUpdateStatus ==
    [ status |-> "idle", source |-> "none", availableVersion |-> NoVersion,
      downloadedVersion |-> NoVersion, updateFilePath |-> NoPath, error |-> FALSE ]

createInitialGitHubUpdateMetadata ==
    [ lastTag |-> << >>, filePath |-> NoPath, sizeBytes |-> 0, lastAppliedTag |-> << >> ]

\* updateStatus = { ...updateStatus, ...next }
setUpdateStatus(status, patch) ==
    [ k \in DOMAIN status |-> IF k \in DOMAIN patch THEN patch[k] ELSE status[k] ]

\* app.getVersion()
AppVersion == <<"1", ".", "2", ".", "0">>

\* Tags a release may carry: newer than the running version, the running
\* version written longer, and one without any number.
TagNewer == <<"v", "1", ".", "3", ".", "0">>
TagRunning == <<"V", "1", ".", "2", ".", "0", ".", "0">>
TagUnnumbered == <<"n", "i", "g", "h", "t", "l", "y">>
ReleaseTags == { TagNewer, TagRunning, TagUnnumbered }

Letters ==
    { "a", "b", "c", "d", "e", "f", "g", "h", "i", "j", "k", "l", "m", "n", "o", "p", "q",
      "r", "s", "t", "u", "v", "w", "x", "y", "z", "A", "B", "C", "D", "E", "F", "G", "H",
      "I", "J", "K", "L", "M", "N", "O", "P", "Q", "R", "S", "T", "U", "V", "W", "X", "Y",
      "Z" }

\* [a-z0-9._-], letters of either case
PathSafe(c) ==
    c \in Letters \cup { "0", "1", "2", "3", "4", "5", "6", "7", "8", "9", ".", "_", "-" }

\* replace(/[^a-z0-9._-]+/gi, "_"): each run of other characters becomes one "_".
RECURSIVE ReplaceUnsafeRuns(_, _)
ReplaceUnsafeRuns(str, inRun) ==
    IF str = << >> THEN << >>
    ELSE IF PathSafe(Head(str)) THEN <<Head(str)>> \o ReplaceUnsafeRuns(Tail(str), FALSE)
    ELSE (IF inRun THEN << >> ELSE <<"_">>) \o ReplaceUnsafeRuns(Tail(str), TRUE)

\* String(tagValue || "").trim() of a tag without surrounding blanks.
sanitizeTagForPath(tagValue) ==
    LET normalized == ReplaceUnsafeRuns(tagValue, FALSE)
    IN IF normalized = << >> THEN <<"l", "a", "t", "e", "s", "t">> ELSE normalized

\* path.join(getGitHubUpdateDownloadDir(), safeTag, fileName)
resolveGitHubUpdateTargetPath(tagValue) ==
    [dir |-> sanitizeTagForPath(tagValue), file |-> GITHUB_UPDATE_ASSET_NAME, ext |-> ""]

\* `${targetPath}.download`
TempPathOf(targetPath) == [targetPath EXCEPT !.ext = ".download"]

Paths ==
    { resolveGitHubUpdateTargetPath(t) : t \in ReleaseTags }
    \cup { TempPathOf(resolveGitHubUpdateTargetPath(t)) : t \in ReleaseTags }

\* fs.existsSync
existsSync(files, path) == path \in DOMAIN files /\ files[path] # "absent"

CycleIds == 1..MaxCycles

NoResult ==
    [ ok |-> FALSE, kind |-> "", alreadyApplied |-> FALSE, tag |-> << >>, filePath |-> NoPath,
      sizeBytes |-> 0 ]

\* What fetchLatestGitHubRelease settled to: thrown, or a release (isObject
\* FALSE for null).
NothingFetched ==
    [ threw |-> FALSE,
      release |-> [ isObject |-> FALSE, draft |-> FALSE, prerelease |-> FALSE,
                    published_at |-> [kind |-> "missing", ms |-> 0],
                    created_at |-> [kind |-> "missing", ms |-> 0] ] ]

\* One call of checkGitHubReleaseZipUpdate.  pc: "none" (not running),
\* "fetching" (awaits fetchLatestGitHubRelease), "fetched" (that promise has
\* settled to fetched, the call has not resumed yet), "requesting" (awaits
\* the asset's fetch), "streaming" (awaits pipeline).
\* trigger: what called it, "updates:check", "updates:download" or "startup".
NoCycle ==
    [ pc |-> "none", trigger |-> "", download |-> FALSE, forceDownload |-> FALSE,
      fetched |-> NothingFetched, tag |-> << >> ]

MaxApplies == 2

\* The calls of applyGitHubReleaseZipUpdate that can be in flight together:
\* the last one is the startup check's, the others are installs.
ApplyIds == 1..MaxApplies

\* One call of applyGitHubReleaseZipUpdate (or of the feed install).  pc:
\* "none" (not running), "expanding" (awaits expandArchiveOnWindows),
\* "quitting" (app.quit is scheduled).  launched: a launcher process runs.
\* effects: what the call did to the outside, in the order it did it.
NoApply == [pc |-> "none", manual |-> FALSE, tag |-> << >>, zipPath |-> NoPath,
            result |-> [ok |-> FALSE, kind |-> "", launcherPath |-> ""],
            launched |-> FALSE, effects |-> << >>]

MaxLaunches == 2

\* No "updates:status" message has gone to any window.
NothingSent == [window |-> 0, snapshot |-> createInitialUpdateStatus]

\* The process after app.whenReady on a packaged build without the
\* electron-updater module, nothing pushed to a window.
HostIdle ==
    /\ updateConfig = DEFAULT_UPDATE_CONFIG
    /\ app = [autoUpdater |-> FALSE, isPackaged |-> TRUE, ready |-> TRUE, launches |-> 1]
    /\ updateStatusSent = NothingSent
    /\ updateCheckTimer = 0
    /\ readyToShowPending = FALSE

\* The module state before app.whenReady, on a fresh profile.
UpdIdle ==
    /\ updateStatus = createInitialUpdateStatus
    /\ githubUpdateMetadata = createInitialGitHubUpdateMetadata
    /\ disk = [path \in Paths |-> "absent"]
    /\ cycles = [c \in CycleIds |-> NoCycle]
    /\ lastReturned = NoResult
    /\ applying = [a \in ApplyIds |-> NoApply]

(***************************************************************************)
(* Actions.  The main process runs one callback at a time; hook names the  *)
(* callback that ran and stays until the caller has taken its reply.       *)
(***************************************************************************)
PrivInit ==
    /\ privacyConfig = sanitizePrivacyConfig([isObject |-> TRUE,
                           fields |-> SpreadOver(DEFAULT_PRIVACY_CONFIG, NoFields)])
    /\ privacyStats = createEmptyPrivacyStats
    /\ privacyStatsBroadcastTimer = FALSE
    /\ hook = "idle"
    /\ details = NoDetails
    /\ reply = NoReply

Ran(name, d, r) ==
    /\ hook' = name
    /\ details' = d
    /\ reply' = WithoutStat(r)
    /\ privacyStats' = Counted(privacyStats, r)
    /\ privacyStatsBroadcastTimer' =
           TimerAfter(privacyStatsBroadcastTimer, privacyStats, Counted(privacyStats, r))

OnBeforeRequest ==
    /\ hook = "idle"
    /\ EventsSoFar < MaxEvents
    /\ \E url \in RequestUrls, resourceType \in ResourceTypes, initiator \in Initiators :
         LET d == [NoDetails EXCEPT !.url = url, !.resourceType = resourceType,
                                    !.initiator = initiator]
         IN Ran("onBeforeRequest", d, onBeforeRequest(privacyConfig, d))
    /\ UNCHANGED <<privacyConfig, fnVars, rendererVars, pushVars, updVars, hostVars>>

OnBeforeSendHeaders ==
    /\ hook = "idle"
    /\ EventsSoFar < MaxEvents
    /\ \E url \in HeaderRequestUrls, initiator \in Initiators, headers \in RequestHeaderSets :
         LET d == [NoDetails EXCEPT !.url = url, !.initiator = initiator,
                                    !.requestHeaders = headers]
         IN Ran("onBeforeSendHeaders", d, onBeforeSendHeaders(privacyConfig, d))
    /\ UNCHANGED <<privacyConfig, fnVars, rendererVars, pushVars, updVars, hostVars>>

PermissionRequest ==
    /\ hook = "idle"
    /\ EventsSoFar < MaxEvents
    /\ \E permission \in Permissions :
         Ran("permissionRequest", [NoDetails EXCEPT !.permission = permission],
             permissionRequestHandler(privacyConfig, permission))
    /\ UNCHANGED <<privacyConfig, fnVars, rendererVars, pushVars, updVars, hostVars>>

PermissionCheck ==
    /\ hook = "idle"
    /\ \E permission \in Permissions :
         Ran("permissionCheck", [NoDetails EXCEPT !.permission = permission],
             permissionCheckHandler(privacyConfig, permission) @@ [stat |-> ""])
    /\ UNCHANGED <<privacyConfig, fnVars, rendererVars, pushVars, updVars, hostVars>>

PatchPrivacyConfig ==
    /\ hook = "idle"
    /\ \E patch \in PatchPayloads :
         /\ privacyConfig' = patchPrivacyConfig(privacyConfig, patch)
         /\ hook' = "patchPrivacyConfig"
         /\ details' = [NoDetails EXCEPT !.payload = patch]
         /\ reply' = [NoReply EXCEPT !.calls = 1, !.ok = TRUE]
    /\ UNCHANGED <<privacyStats, privacyStatsBroadcastTimer, fnVars, rendererVars, pushVars, updVars, hostVars>>

ClearDataByScope ==
    /\ hook = "idle"
    /\ \E scope \in ClearScopes :
         /\ hook' = "clearDataByScope"
         /\ details' = [NoDetails EXCEPT !.scope = scope]
         /\ reply' = clearDataByScope(scope)
    /\ UNCHANGED <<privacyConfig, privacyStats, privacyStatsBroadcastTimer, fnVars, rendererVars, pushVars, updVars, hostVars>>

\* The 220 ms timer fires: it clears itself and sends the stats.
PrivacyStatsBroadcast ==
    /\ hook = "idle"
    /\ privacyStatsBroadcastTimer
    /\ privacyStatsBroadcastTimer' = FALSE
    /\ hook' = "sendPrivacyStats"
    /\ UNCHANGED <<privacyConfig, privacyStats, details, reply, fnVars, rendererVars, pushVars, updVars, hostVars>>

\* The process quits and starts again: the module state is rebuilt and the
\* config is read back from privacy.json as the last patch wrote it.
Restart ==
    /\ hook = "idle"
    /\ EventsSoFar > 0
    /\ privacyConfig' = sanitizePrivacyConfig([isObject |-> TRUE,
                            fields |-> SpreadOver(privacyConfig, NoFields)])
    /\ privacyStats' = createEmptyPrivacyStats
    /\ privacyStatsBroadcastTimer' = FALSE
    /\ hook' = "restart"
    /\ UNCHANGED <<details, reply, fnVars, rendererVars, pushVars, updVars, hostVars>>

ReplyTaken ==
    /\ hook # "idle"
    /\ hook' = "idle"
    /\ details' = NoDetails
    /\ reply' = NoReply
    /\ UNCHANGED <<privacyConfig, privacyStats, privacyStatsBroadcastTimer, fnVars, rendererVars, pushVars, updVars, hostVars>>

\* null, for a tab id.
NoTab == 0

NoCall == [op |-> "", arg |-> 0]

\* const state of the renderer, before restoreTabsOrCreateFresh has run.
RendererIdle ==
    /\ state = [tabs |-> << >>, activeTabId |-> NoTab, closedTabs |-> << >>]
    /\ called = NoCall

FnIdle == fnIn = <<EmptyString, EmptyString>> /\ fnOut = [done |-> FALSE]

\* Before createWindow(): no window, no timer callback, nothing sent.
PushIdle ==
    /\ mainWindow = FALSE
    /\ scheduledCallbacks = 0
    /\ windowsCreated = 0
    /\ statsPushes = [count |-> 0, snapshot |-> createEmptyPrivacyStats]

Init == PrivInit /\ RendererIdle /\ FnIdle /\ PushIdle /\ UpdIdle /\ HostIdle

Next ==
    \/ OnBeforeRequest
    \/ OnBeforeSendHeaders
    \/ PermissionRequest
    \/ PermissionCheck
    \/ PatchPrivacyConfig
    \/ ClearDataByScope
    \/ PrivacyStatsBroadcast
    \/ Restart
    \/ ReplyTaken

Spec == Init /\ [][Next]_vars

(***************************************************************************)
(* The host matcher on its own: every pair of inputs, one application.     *)
(***************************************************************************)
HostLabels == { "a", "com", "localhost", "7" }

RECURSIVE HostsOfLength(_)
HostsOfLength(n) ==
    IF n = 0 THEN { << >> }
    ELSE { Append(h, l) : h \in HostsOfLength(n - 1), l \in HostLabels }

MatcherHosts ==
    UNION { HostsOfLength(n) : n \in 1..MaxLabels }
    \cup { <<"127", "0", "0", "1">>, <<"10", "0", "0", "7">>, <<"1234", "0", "0", "1">>,
           <<"Www", "A", "Com">>, <<"www", "a", "com", "">>, <<"::1">>,
           <<"ads", "doubleclick", "net">> }

MatcherUrls == { Url("https:", "//", h) : h \in MatcherHosts } \cup { NotAUrl, EmptyString }

FnInit ==
    /\ fnIn \in MatcherUrls \X MatcherUrls
    /\ fnOut = [done |-> FALSE]

ApplyIsThirdParty ==
    /\ ~fnOut.done
    /\ fnOut' = [ done |-> TRUE,
                  thirdParty |-> isThirdPartyRequest(fnIn[1], fnIn[2]),
                  reverse |-> isThirdPartyRequest(fnIn[2], fnIn[1]),
                  requestKey |-> getSiteKey(getHostnameFromUrl(fnIn[1])),
                  initiatorKey |-> getSiteKey(getHostnameFromUrl(fnIn[2])) ]
    /\ UNCHANGED <<fnIn, rendererVars, privVars, pushVars, updVars, hostVars>>

HostMatcherInit == PrivInit /\ RendererIdle /\ FnInit /\ PushIdle /\ UpdIdle /\ HostIdle

SpecHostMatcher == HostMatcherInit /\ [][ApplyIsThirdParty]_vars

(***************************************************************************)
(* The debounced statistics push.  The handle privacyStatsBroadcastTimer   *)
(* and the callbacks the event loop still has to run are kept apart, so    *)
(* that a second setTimeout() would show.                                  *)
(***************************************************************************)
\* Counter increments of one run of the debounce model.
MaxIncrements == 3
\* Windows created in one run of the debounce model.
MaxWindows == 2

queuePrivacyStatsBroadcast_unguarded(timer, scheduled) ==
    [timer |-> TRUE, scheduled |-> scheduled + 1]

\* Returns at once while the handle is set, else schedules one callback.
queuePrivacyStatsBroadcast(timer, scheduled) ==
    IF timer
    THEN [timer |-> timer, scheduled |-> scheduled]
    ELSE [timer |-> TRUE, scheduled |-> scheduled + 1]

\* webContents.send("privacy:stats", privacyStats), unless there is no window.
sendPrivacyStats(window, pushes, stats) ==
    IF ~window THEN pushes ELSE [count |-> pushes.count + 1, snapshot |-> stats]

StatKeys == DOMAIN createEmptyPrivacyStats \cup {"unknownKey"}

\* incrementPrivacyStat(key) as the hooks call it.
IncrementPrivacyStat ==
    /\ EventsSoFar < MaxIncrements
    /\ \E key \in StatKeys :
         LET after == incrementPrivacyStat(privacyStats, key)
             queued == IF key \in DOMAIN privacyStats
                       THEN queuePrivacyStatsBroadcast(privacyStatsBroadcastTimer,
                                                       scheduledCallbacks)
                       ELSE [timer |-> privacyStatsBroadcastTimer,
                             scheduled |-> scheduledCallbacks]
         IN /\ privacyStats' = after
            /\ privacyStatsBroadcastTimer' = queued.timer
            /\ scheduledCallbacks' = queued.scheduled
    /\ UNCHANGED <<privacyConfig, hook, details, reply, fnVars, rendererVars, mainWindow, windowsCreated,
                   statsPushes, updVars, hostVars>>

\* The callback of setTimeout(..., 220) runs.
PrivacyStatsTimerFires ==
    /\ scheduledCallbacks > 0
    /\ scheduledCallbacks' = scheduledCallbacks - 1
    /\ privacyStatsBroadcastTimer' = FALSE
    /\ statsPushes' = sendPrivacyStats(mainWindow, statsPushes, privacyStats)
    /\ UNCHANGED <<privacyConfig, privacyStats, hook, details, reply, fnVars, rendererVars, mainWindow,
                   windowsCreated, updVars, hostVars>>

\* createWindow() and the window's ready-to-show: pushRuntimeStateToRenderer().
WindowReady ==
    /\ ~mainWindow
    /\ windowsCreated < MaxWindows
    /\ mainWindow' = TRUE
    /\ windowsCreated' = windowsCreated + 1
    /\ statsPushes' = sendPrivacyStats(TRUE, statsPushes, privacyStats)
    /\ UNCHANGED <<privVars, fnVars, rendererVars, scheduledCallbacks, updVars, hostVars>>

\* The window's "closed" event.
WindowClosed ==
    /\ mainWindow
    /\ mainWindow' = FALSE
    /\ readyToShowPending' = FALSE
    /\ UNCHANGED <<privVars, fnVars, rendererVars, scheduledCallbacks, windowsCreated, statsPushes, updVars,
                   updateConfig, app, updateStatusSent, updateCheckTimer>>

DebounceInit == PrivInit /\ RendererIdle /\ FnIdle /\ PushIdle /\ UpdIdle /\ HostIdle

DebounceNext ==
    \/ IncrementPrivacyStat
    \/ PrivacyStatsTimerFires
    \/ WindowReady
    \/ WindowClosed

SpecDebounce == DebounceInit /\ [][DebounceNext]_vars

\* A scheduled timer callback is run by the event loop after its delay.
SpecDebounceLive == SpecDebounce /\ WF_vars(PrivacyStatsTimerFires)

(***************************************************************************)
(* The GitHub release-zip updater: choosing the release.  A timestamp      *)
(* string is [kind, ms]: kind "missing" is undefined or "", kind "garbage" *)
(* a string Date.parse() rejects, kind "date" a date ms after the epoch.   *)
(* A release is [isObject, draft, prerelease, published_at, created_at];   *)
(* isObject FALSE is a null entry of the payload.  The release chosen is   *)
(* named by its position in the payload, 0 standing for null.              *)
(***************************************************************************)
\* Longest releases payload.
MaxReleases == 2

MissingTime == [kind |-> "missing", ms |-> 0]
GarbageTime == [kind |-> "garbage", ms |-> 0]
DateTime(ms) == [kind |-> "date", ms |-> ms]

\* Date.parse(String(value || "")) || 0
DateParseOrZero(value) == IF value.kind = "date" THEN value.ms ELSE 0

\* left.published_at || left.created_at, parsed (the comparator's leftTime).
SortTime(release) ==
    IF ~release.isObject THEN 0
    ELSE IF release.published_at.kind # "missing"
         THEN DateParseOrZero(release.published_at)
         ELSE DateParseOrZero(release.created_at)

\* Array.prototype.filter on a sequence of payload positions.
RECURSIVE FilterIndices(_, _, _)
FilterIndices(indices, payload, allowPrerelease) ==
    IF indices = <<>> THEN <<>>
    ELSE LET i == Head(indices)
             rest == FilterIndices(Tail(indices), payload, allowPrerelease)
         IN IF allowPrerelease \/ ~payload[i].prerelease THEN <<i>> \o rest ELSE rest

RECURSIVE NonDraftIndices(_, _)
NonDraftIndices(payload, i) ==
    IF i > Len(payload) THEN <<>>
    ELSE IF payload[i].isObject /\ ~payload[i].draft
         THEN <<i>> \o NonDraftIndices(payload, i + 1)
         ELSE NonDraftIndices(payload, i + 1)

\* Array.prototype.sort with the comparator rightTime - leftTime: a stable
\* sort, latest first (insertion of the head into the sorted tail).
RECURSIVE InsertByTime(_, _, _)
InsertByTime(i, sorted, payload) ==
    IF sorted = <<>> THEN <<i>>
    ELSE IF SortTime(payload[Head(sorted)]) - SortTime(payload[i]) > 0
         THEN <<Head(sorted)>> \o InsertByTime(i, Tail(sorted), payload)
         ELSE <<i>> \o sorted

RECURSIVE SortLatestFirst(_, _)
SortLatestFirst(indices, payload) ==
    IF indices = <<>> THEN <<>>
    ELSE InsertByTime(Head(indices), SortLatestFirst(Tail(indices), payload), payload)

fetchLatestGitHubRelease_keeping_drafts(response, allowPrerelease) ==
    IF ~response.ok THEN [threw |-> TRUE, release |-> 0]
    ELSE LET releases == IF response.isArray THEN response.payload ELSE <<>>
             all == [i \in 1..Len(releases) |-> i]
             preferred == FilterIndices(all, releases, allowPrerelease)
             selectionPool == IF Len(preferred) > 0 THEN preferred ELSE all
             sorted == SortLatestFirst(selectionPool, releases)
         IN [threw |-> FALSE, release |-> IF sorted = <<>> THEN 0 ELSE sorted[1]]

fetchLatestGitHubRelease(response, allowPrerelease) ==
    IF ~response.ok THEN [threw |-> TRUE, release |-> 0]
    ELSE LET releases == IF response.isArray THEN response.payload ELSE <<>>
             nonDraftReleases == NonDraftIndices(releases, 1)
             preferred == FilterIndices(nonDraftReleases, releases, allowPrerelease)
             selectionPool == IF Len(preferred) > 0 THEN preferred ELSE nonDraftReleases
             sorted == SortLatestFirst(selectionPool, releases)
         IN [threw |-> FALSE, release |-> IF sorted = <<>> THEN 0 ELSE sorted[1]]

NullRelease ==
    [ isObject |-> FALSE, draft |-> FALSE, prerelease |-> FALSE,
      published_at |-> MissingTime, created_at |-> MissingTime ]

ReleaseObjects ==
    [ isObject : {TRUE}, draft : BOOLEAN, prerelease : BOOLEAN,
      published_at : {MissingTime, GarbageTime, DateTime(1), DateTime(3)},
      created_at : {MissingTime, DateTime(2)} ]

RECURSIVE PayloadsOfLength(_)
PayloadsOfLength(n) ==
    IF n = 0 THEN { <<>> }
    ELSE { <<r>> \o p : r \in ReleaseObjects \cup {NullRelease}, p \in PayloadsOfLength(n - 1) }

\* What the releases request may answer: an error status, a body that is no
\* array, or an array of releases.
ReleaseResponses ==
    { [ok |-> FALSE, isArray |-> FALSE, payload |-> <<>>],
      [ok |-> TRUE, isArray |-> FALSE, payload |-> <<>>] }
    \cup { [ok |-> TRUE, isArray |-> TRUE, payload |-> p] :
             p \in UNION { PayloadsOfLength(n) : n \in 0..MaxReleases } }

ReleasePickInit ==
    /\ PrivInit /\ RendererIdle
    /\ PushIdle
    /\ UpdIdle /\ HostIdle
    /\ fnIn \in ReleaseResponses \X BOOLEAN
    /\ fnOut = [done |-> FALSE]

ApplyFetchLatest ==
    /\ ~fnOut.done
    /\ fnOut' = [done |-> TRUE] @@ fetchLatestGitHubRelease(fnIn[1], fnIn[2])
    /\ UNCHANGED <<fnIn, rendererVars, privVars, pushVars, updVars, hostVars>>

SpecReleasePick == ReleasePickInit /\ [][ApplyFetchLatest]_vars

(***************************************************************************)
(* Versions and tags.  A version or tag string is the sequence of its      *)
(* characters.                                                             *)
(***************************************************************************)
\* Most dot-separated components of a generated version string.
MaxComponents == 3

Digits == { "0", "1", "2", "3", "4", "5", "6", "7", "8", "9" }

DigitValue(c) ==
    CASE c = "0" -> 0 [] c = "1" -> 1 [] c = "2" -> 2 [] c = "3" -> 3 [] c = "4" -> 4
      [] c = "5" -> 5 [] c = "6" -> 6 [] c = "7" -> 7 [] c = "8" -> 8 [] c = "9" -> 9

\* String.prototype.trim
RECURSIVE Trim(_)
Trim(str) ==
    IF str = <<>> THEN str
    ELSE IF Head(str) = " " THEN Trim(Tail(str))
    ELSE IF str[Len(str)] = " " THEN Trim(SubSeq(str, 1, Len(str) - 1))
    ELSE str

normalizeVersionFromTag_keeping_v(tagValue) == Trim(tagValue)

\* String(tagValue || "").trim(), then one leading v or V removed.
normalizeVersionFromTag(tagValue) ==
    LET tag == Trim(tagValue)
    IN IF tag = <<>> THEN <<>>
       ELSE IF Head(tag) \in {"v", "V"} THEN Tail(tag) ELSE tag

\* source.split(/[^0-9]+/) without the empty pieces, each piece as a Number:
\* run is the value of the digit run being read, -1 outside a run.
RECURSIVE SplitDigitRuns(_, _, _)
SplitDigitRuns(source, i, run) ==
    IF i > Len(source) THEN (IF run >= 0 THEN <<run>> ELSE <<>>)
    ELSE IF source[i] \in Digits
         THEN SplitDigitRuns(source, i + 1,
                             (IF run >= 0 THEN run * 10 ELSE 0) + DigitValue(source[i]))
         ELSE (IF run >= 0 THEN <<run>> ELSE <<>>) \o SplitDigitRuns(source, i + 1, -1)

parseVersionParts(versionValue) ==
    LET source == Trim(versionValue)
    IN IF source = <<>> THEN <<>> ELSE SplitDigitRuns(source, 1, -1)

\* left[index] || 0
PartOrZero(parts, index) == IF index <= Len(parts) THEN parts[index] ELSE 0

RECURSIVE CompareFrom(_, _, _, _)
CompareFrom(left, right, index, maxLength) ==
    IF index > maxLength THEN 0
    ELSE IF PartOrZero(left, index) > PartOrZero(right, index) THEN 1
    ELSE IF PartOrZero(left, index) < PartOrZero(right, index) THEN -1
    ELSE CompareFrom(left, right, index + 1, maxLength)

compareVersions_without_padding(leftVersion, rightVersion) ==
    LET left == parseVersionParts(leftVersion)
        right == parseVersionParts(rightVersion)
    IN IF Len(left) = 0 \/ Len(right) = 0 THEN 0
       ELSE LET common == IF Len(left) < Len(right) THEN Len(left) ELSE Len(right)
                head == CompareFrom(left, right, 1, common)
            IN IF head # 0 THEN head
               ELSE IF Len(left) > Len(right) THEN 1
               ELSE IF Len(left) < Len(right) THEN -1 ELSE 0

compareVersions(leftVersion, rightVersion) ==
    LET left == parseVersionParts(leftVersion)
        right == parseVersionParts(rightVersion)
    IN IF Len(left) = 0 \/ Len(right) = 0 THEN 0
       ELSE LET maxLength == IF Len(left) > Len(right) THEN Len(left) ELSE Len(right)
            IN CompareFrom(left, right, 1, maxLength)

\* The texts between the dots of a generated version: numbers, one of two
\* digits, and a word without digits.
ComponentTexts == { <<"0">>, <<"2">>, <<"1", "0">>, <<"b">> }

RECURSIVE DottedOfLength(_)
DottedOfLength(n) ==
    IF n = 0 THEN { <<>> }
    ELSE IF n = 1 THEN ComponentTexts
    ELSE { c \o <<".">> \o d : c \in ComponentTexts, d \in DottedOfLength(n - 1) }

VersionStrings == UNION { DottedOfLength(n) : n \in 0..MaxComponents }

CompareInit ==
    /\ PrivInit /\ RendererIdle
    /\ PushIdle
    /\ UpdIdle /\ HostIdle
    /\ fnIn \in VersionStrings \X VersionStrings
    /\ fnOut = [done |-> FALSE]

ApplyCompareVersions ==
    /\ ~fnOut.done
    /\ fnOut' = [ done |-> TRUE,
                  forward |-> compareVersions(fnIn[1], fnIn[2]),
                  backward |-> compareVersions(fnIn[2], fnIn[1]) ]
    /\ UNCHANGED <<fnIn, rendererVars, privVars, pushVars, updVars, hostVars>>

SpecCompareVersions == CompareInit /\ [][ApplyCompareVersions]_vars

(***************************************************************************)
(* The GitHub release-zip updater: one check/download cycle.  An asset is  *)
(* [name, browser_download_url], browser_download_url FALSE standing for a *)
(* missing URL.                                                            *)
(***************************************************************************)
NullAsset == [name |-> "", browser_download_url |-> FALSE]

findReleaseAsset_any_name(assets, assetName) ==
    IF assets = << >> THEN NullAsset ELSE assets[1]

\* assets.find(name equal to the wanted name, both in lower case) || null
findReleaseAsset(assets, assetName) ==
    LET matching == { i \in 1..Len(assets) :
                        toLowerCase(assets[i].name) = toLowerCase(assetName) }
    IN IF matching = {} THEN NullAsset
       ELSE assets[CHOOSE i \in matching : \A j \in matching : i <= j]

StatusPatch_without_path(status, available, downloaded, filePath, error) ==
    [ source |-> "github-release-zip", status |-> status, availableVersion |-> available,
      downloadedVersion |-> downloaded, updateFilePath |-> NoPath, error |-> error ]

StatusPatch(status, available, downloaded, filePath, error) ==
    [ source |-> "github-release-zip", status |-> status, availableVersion |-> available,
      downloadedVersion |-> downloaded, updateFilePath |-> filePath, error |-> error ]

AvailablePatch_keeping_download(version) ==
    [ source |-> "github-release-zip", status |-> "available", availableVersion |-> version,
      error |-> FALSE ]

\* The setUpdateStatus of a check without download that found a newer release.
AvailablePatch(version) == StatusPatch("available", version, NoVersion, NoPath, FALSE)

CheckingPatch_keeping_error ==
    [ source |-> "github-release-zip", status |-> "checking", availableVersion |-> NoVersion,
      downloadedVersion |-> NoVersion, updateFilePath |-> NoPath ]

\* The setUpdateStatus at the head of the call.
CheckingPatch == StatusPatch("checking", NoVersion, NoVersion, NoPath, FALSE)

\* normalizedVersion || tag
VersionOrTag(tag) ==
    IF normalizeVersionFromTag(tag) # << >> THEN normalizeVersionFromTag(tag) ELSE tag

hasDownloadedFile_by_applied_tag(metadata, tag, files) ==
    /\ metadata.lastAppliedTag = tag
    /\ metadata.filePath # NoPath
    /\ existsSync(files, metadata.filePath)

\* hasDownloadedFile: the metadata names this tag and a file that exists.
hasDownloadedFile(metadata, tag, files) ==
    /\ metadata.lastTag = tag
    /\ metadata.filePath # NoPath
    /\ existsSync(files, metadata.filePath)

\* The part of the call that runs when fetchLatestGitHubRelease has settled:
\* fetched is what it resolved to or threw.  Answers the new status, whether
\* the call goes on to download (next "requesting") or returns, and its result.
checkGitHubReleaseZipUpdate(fetched, opts, status, metadata, files) ==
    IF fetched.threw
    THEN [ status |-> setUpdateStatus(status,
                          [source |-> "github-release-zip", status |-> "error", error |-> TRUE]),
           next |-> "none", tag |-> << >>,
           result |-> [NoResult EXCEPT !.kind = "fetchFailed"] ]
    ELSE IF ~fetched.release.isObject \/ fetched.release.tag_name = << >>
    THEN [ status |-> setUpdateStatus(status,
                          [source |-> "github-release-zip", status |-> "idle", error |-> FALSE]),
           next |-> "none", tag |-> << >>,
           result |-> [NoResult EXCEPT !.kind = "noRelease"] ]
    ELSE
    LET tag == Trim(fetched.release.tag_name)
        normalizedVersion == normalizeVersionFromTag(tag)
        normalizedCurrentVersion == normalizeVersionFromTag(AppVersion)
        version == VersionOrTag(tag)
        asset == findReleaseAsset(fetched.release.assets, GITHUB_UPDATE_ASSET_NAME)
        alreadyApplied == metadata.lastAppliedTag = tag
    IN IF /\ Len(parseVersionParts(normalizedVersion)) > 0
          /\ Len(parseVersionParts(normalizedCurrentVersion)) > 0
          /\ compareVersions(normalizedVersion, normalizedCurrentVersion) <= 0
       THEN [ status |-> setUpdateStatus(status,
                             StatusPatch("idle", version, version, metadata.filePath, FALSE)),
              next |-> "none", tag |-> tag,
              result |-> [NoResult EXCEPT !.ok = TRUE, !.kind = "upToDate", !.tag = tag,
                                          !.filePath = metadata.filePath] ]
       ELSE IF asset = NullAsset \/ ~asset.browser_download_url
       THEN [ status |-> setUpdateStatus(status,
                             [source |-> "github-release-zip", status |-> "error",
                              availableVersion |-> version, error |-> TRUE]),
              next |-> "none", tag |-> tag,
              result |-> [NoResult EXCEPT !.kind = "noAsset"] ]
       ELSE IF hasDownloadedFile(metadata, tag, files) /\ ~opts.forceDownload
       THEN [ status |-> setUpdateStatus(status,
                             StatusPatch(IF alreadyApplied THEN "idle" ELSE "downloaded",
                                         version, version, metadata.filePath, FALSE)),
              next |-> "none", tag |-> tag,
              result |-> [NoResult EXCEPT !.ok = TRUE, !.kind = "alreadyDownloaded",
                                          !.alreadyApplied = alreadyApplied, !.tag = tag,
                                          !.filePath = metadata.filePath] ]
       ELSE IF ~opts.download
       THEN [ status |-> setUpdateStatus(status,
                             AvailablePatch(version)),
              next |-> "none", tag |-> tag,
              result |-> [NoResult EXCEPT !.ok = TRUE, !.kind = "available", !.tag = tag] ]
       ELSE [ status |-> setUpdateStatus(status,
                             StatusPatch("downloading", version, NoVersion, NoPath, FALSE)),
              next |-> "requesting", tag |-> tag, result |-> NoResult ]

\* Number(stats.size || 0), in units: a whole asset is 2, one cut short 1.
FileSize(content) ==
    CASE content = "complete" -> 2 [] content = "partial" -> 1 [] OTHER -> 0

\* What the file system and the network answer while one download ends.
StreamAnswers ==
    [ pipeline : {"ok", "error"}, rename : {"ok", "error"}, unlink : {"ok", "error"},
      stat : {"ok", "error"} ]

\* The temp file when pipeline() has settled.  shared: another call's stream
\* has the same temp file open.  A temp file that is gone was renamed or
\* unlinked by another call; the stream then wrote to the file it had open.
AfterPipeline(files, targetPath, answers, shared) ==
    LET tempPath == TempPathOf(targetPath)
    IN IF files[tempPath] = "absent"
       THEN IF answers.pipeline = "ok" /\ files[targetPath] = "partial" /\ ~shared
            THEN [files EXCEPT ![targetPath] = "complete"]
            ELSE files
       ELSE [files EXCEPT ![tempPath] =
                 IF answers.pipeline = "ok" /\ ~shared THEN "complete" ELSE "partial"]

\* downloadGitHubAssetToPath from the point where pipeline() settles: rename
\* into place, or cleanup and rethrow; then statSync.
downloadGitHubAssetToPath(files, targetPath, answers, shared) ==
    LET tempPath == TempPathOf(targetPath)
        written == AfterPipeline(files, targetPath, answers, shared)
        renamed == /\ answers.pipeline = "ok"
                   /\ answers.rename = "ok"
                   /\ existsSync(written, tempPath)
        moved == [written EXCEPT ![targetPath] = written[tempPath], ![tempPath] = "absent"]
        cleaned == IF existsSync(written, tempPath) /\ answers.unlink = "ok"
                   THEN [written EXCEPT ![tempPath] = "absent"]
                   ELSE written
    IN IF renamed
       THEN [ threw |-> answers.stat = "error", files |-> moved,
              sizeBytes |-> FileSize(moved[targetPath]) ]
       ELSE [ threw |-> TRUE, files |-> cleaned, sizeBytes |-> 0 ]

\* The asset lists a release may carry: none; an unrelated asset; the wanted
\* asset under another letter case behind an unrelated one; the wanted asset
\* without a URL; the wanted asset.
AssetLists ==
    { << >>,
      << [name |-> "notes.txt", browser_download_url |-> TRUE] >>,
      << [name |-> "notes.txt", browser_download_url |-> TRUE],
         [name |-> "UPDATE.ZIP", browser_download_url |-> TRUE] >>,
      << [name |-> "update.zip", browser_download_url |-> FALSE] >>,
      << [name |-> "update.zip", browser_download_url |-> TRUE] >> }

PublishedRelease(tag, assets) ==
    [ isObject |-> TRUE, draft |-> FALSE, prerelease |-> FALSE, published_at |-> DateTime(1),
      created_at |-> MissingTime, tag_name |-> tag, assets |-> assets ]

\* A later draft, which fetchLatestGitHubRelease passes over.
DraftRelease ==
    [ PublishedRelease(TagNewer, << [name |-> "update.zip", browser_download_url |-> TRUE] >>)
        EXCEPT !.draft = TRUE, !.published_at = DateTime(3) ]

WantedAsset == << [name |-> "update.zip", browser_download_url |-> TRUE] >>

\* The latest published release: the newer tag with any asset list, the
\* running version with or without the asset, a tag without numbers and
\* without the asset, and a release without a tag name.
LatestReleases ==
    { PublishedRelease(TagNewer, a) : a \in AssetLists }
    \cup { PublishedRelease(TagRunning, a) : a \in { << >>, WantedAsset } }
    \cup { PublishedRelease(TagUnnumbered, a) :
             a \in { << >>, << [name |-> "update.zip", browser_download_url |-> FALSE] >> } }
    \cup { PublishedRelease(<< >>, WantedAsset) }

\* What the releases request may answer during a check.
UpdaterResponses ==
    { [ok |-> FALSE, isArray |-> FALSE, payload |-> << >>],
      [ok |-> TRUE, isArray |-> TRUE, payload |-> << >>] }
    \cup { [ok |-> TRUE, isArray |-> TRUE, payload |-> <<DraftRelease, r>>] :
             r \in LatestReleases }

\* fetchLatestGitHubRelease() as the check sees it: thrown, or the release.
FetchedFrom(response) ==
    LET answer == fetchLatestGitHubRelease(response, DEFAULT_UPDATE_CONFIG.allowPrerelease)
    IN [ threw |-> answer.threw,
         release |-> IF answer.threw \/ answer.release = 0
                     THEN NullRelease
                     ELSE response.payload[answer.release] ]

\* What fetchLatestGitHubRelease() may settle to during a check.
FetchedAnswers == { FetchedFrom(response) : response \in UpdaterResponses }

\* Another call than c has a stream open on the temp file of tag.
SharedTemp(c, tag) ==
    \E d \in CycleIds \ {c} : cycles[d].pc = "streaming" /\ cycles[d].tag = tag

ApplyResult(ok, kind, launcherPath) == [ok |-> ok, kind |-> kind, launcherPath |-> launcherPath]

\* a || b on tags and on paths
TagOr(a, b) == IF a # << >> THEN a ELSE b
PathOr(a, b) == IF a # NoPath THEN a ELSE b

applyGitHubReleaseZipUpdate_never_skipping(opts, platform, status, metadata, files) ==
    LET tag == Trim(opts.tag)
    IN IF platform # "win32"
       THEN [status |-> status, next |-> "none", result |-> ApplyResult(FALSE, "notWindows", "")]
       ELSE IF opts.zipPath = NoPath \/ ~existsSync(files, opts.zipPath)
       THEN [status |-> status, next |-> "none", result |-> ApplyResult(FALSE, "noZip", "")]
       ELSE [ status |-> setUpdateStatus(status,
                  [ source |-> "github-release-zip", status |-> "installing",
                    availableVersion |-> IF tag # << >> THEN VersionOrTag(tag)
                                         ELSE status.availableVersion,
                    updateFilePath |-> opts.zipPath, error |-> FALSE ]),
              next |-> "expanding", result |-> ApplyResult(FALSE, "", "") ]

\* applyGitHubReleaseZipUpdate up to its await of expandArchiveOnWindows:
\* answers the new status, whether the call goes on (next "expanding") and,
\* if it returns here, its result.
applyGitHubReleaseZipUpdate(opts, platform, status, metadata, files) ==
    LET tag == Trim(opts.tag)
    IN IF platform # "win32"
       THEN [status |-> status, next |-> "none", result |-> ApplyResult(FALSE, "notWindows", "")]
       ELSE IF opts.zipPath = NoPath \/ ~existsSync(files, opts.zipPath)
       THEN [status |-> status, next |-> "none", result |-> ApplyResult(FALSE, "noZip", "")]
       ELSE IF ~opts.manual /\ tag # << >> /\ metadata.lastAppliedTag = tag
       THEN [status |-> status, next |-> "none",
             result |-> ApplyResult(TRUE, "alreadyApplied", "")]
       ELSE [ status |-> setUpdateStatus(status,
                  [ source |-> "github-release-zip", status |-> "installing",
                    availableVersion |-> IF tag # << >> THEN VersionOrTag(tag)
                                         ELSE status.availableVersion,
                    updateFilePath |-> opts.zipPath, error |-> FALSE ]),
              next |-> "expanding", result |-> ApplyResult(FALSE, "", "") ]

AutoApplyWanted_ignoring_config(result) ==
    /\ result.ok
    /\ ~result.alreadyApplied
    /\ result.kind # "upToDate"
    /\ result.filePath # NoPath

\* The then() of the startup check: apply what the check answered, if the
\* configuration asks for it and the answer names a file not yet applied.
AutoApplyWanted(result) ==
    /\ updateConfig.autoApplyGithubZip
    /\ app.isPackaged
    /\ result.ok
    /\ ~result.alreadyApplied
    /\ result.kind # "upToDate"
    /\ result.filePath # NoPath

\* The slot of a call of applyGitHubReleaseZipUpdate that has run to its
\* await or to its return.
Applied(opts, step) ==
    [ NoApply EXCEPT !.pc = step.next, !.manual = opts.manual, !.tag = Trim(opts.tag),
                     !.zipPath = opts.zipPath, !.result = step.result,
                     !.effects = IF step.next = "expanding" THEN <<"broadcast">> ELSE << >> ]

sendUpdateStatus_once_per_window(window, number, sent, status) ==
    IF ~window \/ sent.window = number THEN sent ELSE [window |-> number, snapshot |-> status]

\* webContents.send("updates:status", updateStatus), unless there is no
\* window; windows are numbered as they are created.
sendUpdateStatus(window, number, sent, status) ==
    IF ~window THEN sent ELSE [window |-> number, snapshot |-> status]

\* The handler leaves the status as next, every change of it made by
\* setUpdateStatus, which ends with sendUpdateStatus().
StatusBecomes(next) ==
    /\ updateStatus' = next
    /\ updateStatusSent' = IF next = updateStatus THEN updateStatusSent
                           ELSE sendUpdateStatus(mainWindow, windowsCreated, updateStatusSent, next)

\* The call returns result, status being the status it leaves; its slot is
\* free again.  The promise of the startup check then runs its then().
Resolves(c, result, status, metadata, files) ==
    /\ cycles' = [cycles EXCEPT ![c] = NoCycle]
    /\ lastReturned' = result
    /\ IF cycles[c].trigger = "startup" /\ AutoApplyWanted(result)
       THEN \E platform \in {"win32", "linux"} :
              LET opts == [manual |-> FALSE, tag |-> result.tag, zipPath |-> result.filePath]
                  step == applyGitHubReleaseZipUpdate(opts, platform, status, metadata, files)
              IN /\ StatusBecomes(step.status)
                 /\ applying' = [applying EXCEPT ![MaxApplies] = Applied(opts, step)]
       ELSE /\ StatusBecomes(status)
            /\ UNCHANGED applying

\* checkGitHubReleaseZipUpdate is called (updates:check without download,
\* updates:download and the startup check with it) and runs to its first await.
StartCheckOn(c, trigger) ==
    /\ app.ready
    /\ cycles[c].pc = "none"
    /\ StatusBecomes(setUpdateStatus(updateStatus, CheckingPatch))
    /\ cycles' = [cycles EXCEPT ![c] = [NoCycle EXCEPT !.pc = "fetching", !.trigger = trigger,
                                                       !.download = trigger # "updates:check"]]
    /\ UNCHANGED <<githubUpdateMetadata, disk, lastReturned, applying, privVars, fnVars, rendererVars, pushVars,
                   hostRest>>

\* The handlers of updates:check and updates:download, with the archive
\* backend switched on.
StartCheck ==
    /\ updateConfig.useGithubReleaseZip
    /\ \E c \in CycleIds, trigger \in {"updates:check", "updates:download"} :
           StartCheckOn(c, trigger)

\* The same, called only while no other call is in flight.
StartCheckAlone ==
    /\ updateConfig.useGithubReleaseZip
    /\ \A c \in CycleIds : cycles[c].pc = "none"
    /\ \A a \in ApplyIds : applying[a].pc # "expanding"
    /\ \E trigger \in {"updates:check", "updates:download"} : StartCheckOn(1, trigger)

\* The promise of fetchLatestGitHubRelease settles.
FetchSettlesWith(answers) ==
    \E c \in CycleIds, fetched \in answers :
        /\ cycles[c].pc = "fetching"
        /\ cycles' = [cycles EXCEPT ![c].pc = "fetched", ![c].fetched = fetched]
        /\ UNCHANGED <<updateStatus, githubUpdateMetadata, disk, lastReturned, applying,
                       privVars, fnVars, rendererVars, pushVars, hostVars>>

FetchSettles == FetchSettlesWith(FetchedAnswers)

\* The call resumes and runs to its return or to the await of the asset's
\* fetch.
CheckResumes ==
    \E c \in CycleIds :
        /\ cycles[c].pc = "fetched"
        /\ LET step == checkGitHubReleaseZipUpdate(cycles[c].fetched, cycles[c], updateStatus,
                                                   githubUpdateMetadata, disk)
           IN IF step.next = "none"
              THEN Resolves(c, step.result, step.status, githubUpdateMetadata, disk)
              ELSE /\ StatusBecomes(step.status)
                   /\ cycles' = [cycles EXCEPT ![c].pc = step.next, ![c].tag = step.tag,
                                               ![c].fetched = NothingFetched]
                   /\ UNCHANGED <<lastReturned, applying>>
        /\ UNCHANGED <<githubUpdateMetadata, disk, privVars, fnVars, rendererVars, pushVars, hostRest>>

DownloadFailedPatch_without_error(tag) ==
    [ source |-> "github-release-zip", availableVersion |-> VersionOrTag(tag) ]

DownloadFailedPatch_still_downloading(tag) ==
    [ source |-> "github-release-zip", status |-> "downloading",
      availableVersion |-> VersionOrTag(tag), error |-> FALSE ]

DownloadFailedPatch(tag) ==
    [ source |-> "github-release-zip", status |-> "error", availableVersion |-> VersionOrTag(tag),
      error |-> TRUE ]

\* The asset's fetch settles: a rejection, a non-2xx status, no body or a
\* failing mkdirSync throw; otherwise the write stream opens the temp file.
AssetResponds ==
    \E c \in CycleIds, answer \in {"rejected", "notOk", "noBody", "mkdirFails", "ok"} :
        /\ cycles[c].pc = "requesting"
        /\ IF answer = "ok"
           THEN /\ disk' = [disk EXCEPT
                       ![TempPathOf(resolveGitHubUpdateTargetPath(cycles[c].tag))] = "partial"]
                /\ cycles' = [cycles EXCEPT ![c].pc = "streaming"]
                /\ UNCHANGED <<updateStatus, updateStatusSent, lastReturned, applying>>
           ELSE /\ Resolves(c, [NoResult EXCEPT !.kind = "downloadFailed"],
                            setUpdateStatus(updateStatus, DownloadFailedPatch(cycles[c].tag)),
                            githubUpdateMetadata, disk)
                /\ UNCHANGED disk
        /\ UNCHANGED <<githubUpdateMetadata, privVars, fnVars, rendererVars, pushVars, hostRest>>

\* pipeline() settles; the download returns or throws, and the check records
\* the file or reports the error.
StreamEndsWith(answerSet) ==
    \E c \in CycleIds, answers \in answerSet :
        /\ cycles[c].pc = "streaming"
        /\ LET tag == cycles[c].tag
               destinationPath == resolveGitHubUpdateTargetPath(tag)
               result == downloadGitHubAssetToPath(disk, destinationPath, answers,
                                                   SharedTemp(c, tag))
               recorded == [githubUpdateMetadata EXCEPT !.lastTag = tag,
                                                        !.filePath = destinationPath,
                                                        !.sizeBytes = result.sizeBytes]
           IN /\ disk' = result.files
              /\ IF result.threw
                 THEN /\ Resolves(c, [NoResult EXCEPT !.kind = "downloadFailed"],
                                  setUpdateStatus(updateStatus, DownloadFailedPatch(tag)),
                                  githubUpdateMetadata, result.files)
                      /\ UNCHANGED githubUpdateMetadata
                 ELSE /\ githubUpdateMetadata' = recorded
                      /\ Resolves(c, [NoResult EXCEPT !.ok = TRUE, !.kind = "downloaded",
                                                     !.tag = tag, !.filePath = destinationPath,
                                                     !.sizeBytes = result.sizeBytes],
                                  setUpdateStatus(updateStatus,
                                      StatusPatch("downloaded", VersionOrTag(tag),
                                                  VersionOrTag(tag), destinationPath, FALSE)),
                                  recorded, result.files)
        /\ UNCHANGED <<privVars, fnVars, rendererVars, pushVars, hostRest>>

StreamEnds == StreamEndsWith(StreamAnswers)

\* Somebody removes a downloaded archive from the updates directory.
FileRemoved ==
    \E path \in Paths :
        /\ path.ext = ""
        /\ disk[path] = "complete"
        /\ disk' = [disk EXCEPT ![path] = "absent"]
        /\ UNCHANGED <<updateStatus, githubUpdateMetadata, cycles, lastReturned, applying,
                       privVars, fnVars, rendererVars, pushVars, hostVars>>

(***************************************************************************)
(* The GitHub release-zip updater: applying the archive.                   *)
(***************************************************************************)
\* The lowest slot free for an install, 0 when there is none.
FreeInstallSlot ==
    LET free == { a \in ApplyIds \ {MaxApplies} : applying[a].pc = "none" }
    IN IF free = {} THEN 0 ELSE CHOOSE a \in free : \A b \in free : a <= b

FeedInstall_any_status(status) ==
    IF ~app.autoUpdater
    THEN [status |-> status, next |-> "none", result |-> ApplyResult(FALSE, "noFeedUpdater", "")]
    ELSE IF ~app.isPackaged
    THEN [status |-> status, next |-> "none", result |-> ApplyResult(FALSE, "notPackaged", "")]
    ELSE [ status |-> setUpdateStatus(status,
                          [source |-> "electron-updater", status |-> "installing"]),
           next |-> "quitting", result |-> ApplyResult(TRUE, "feedInstall", "") ]

\* installDownloadedUpdate() on the feed backend: nothing without the
\* module, a packaged build and a downloaded update; otherwise status
\* installing and quitAndInstall on the next turn of the event loop.
FeedInstall(status) ==
    IF ~app.autoUpdater
    THEN [status |-> status, next |-> "none", result |-> ApplyResult(FALSE, "noFeedUpdater", "")]
    ELSE IF ~app.isPackaged
    THEN [status |-> status, next |-> "none", result |-> ApplyResult(FALSE, "notPackaged", "")]
    ELSE IF status.status # "downloaded"
    THEN [status |-> status, next |-> "none", result |-> ApplyResult(FALSE, "notDownloaded", "")]
    ELSE [ status |-> setUpdateStatus(status,
                          [source |-> "electron-updater", status |-> "installing"]),
           next |-> "quitting", result |-> ApplyResult(TRUE, "feedInstall", "") ]

\* updates:install: installDownloadedUpdate(), to its return or to the await
\* of applyGitHubReleaseZipUpdate.
InstallDownloadedUpdateOn(a) ==
    /\ app.ready
    /\ applying[a].pc = "none"
    /\ IF updateStatus.source # "github-release-zip"
       THEN LET step == FeedInstall(updateStatus)
            IN /\ StatusBecomes(step.status)
               /\ applying' = [applying EXCEPT ![a] =
                      [NoApply EXCEPT !.pc = step.next, !.manual = TRUE, !.result = step.result,
                                      !.effects = IF step.next = "quitting"
                                                  THEN <<"broadcast", "quit">> ELSE << >>]]
       ELSE \E platform \in {"win32", "linux"} :
              LET opts == [ manual |-> TRUE,
                            tag |-> TagOr(githubUpdateMetadata.lastTag,
                                          updateStatus.availableVersion),
                            zipPath |-> PathOr(updateStatus.updateFilePath,
                                               githubUpdateMetadata.filePath) ]
                  step == applyGitHubReleaseZipUpdate(opts, platform, updateStatus,
                                                      githubUpdateMetadata, disk)
              IN /\ StatusBecomes(step.status)
                 /\ applying' = [applying EXCEPT ![a] = Applied(opts, step)]
    /\ UNCHANGED <<githubUpdateMetadata, disk, cycles, lastReturned, privVars, fnVars, rendererVars, pushVars,
                   hostRest>>

\* An install arrives while no call of the apply function is in flight.
InstallDownloadedUpdate ==
    /\ \A a \in ApplyIds : applying[a].pc = "none"
    /\ InstallDownloadedUpdateOn(1)

\* What happens once expandArchiveOnWindows has settled: the expansion
\* rejects, no launcher is among the files, spawn throws, spawn returns a
\* child that fails to start and says so by an error event nobody listens
\* to, or the launcher runs.
ExpandAnswers == {"expandFails", "noLauncher", "spawnThrows", "spawnErrorEvent", "launched"}

\* applyGitHubReleaseZipUpdate from that point to its return: an archive
\* that is not whole does not expand.  After the spawn the call records the
\* tag, broadcasts the status and schedules app.quit.
ExpandEndsOn(a, answer) ==
    /\ applying[a].pc = "expanding"
    /\ answer # "expandFails" => disk[applying[a].zipPath] = "complete"
    /\ IF answer \in {"spawnErrorEvent", "launched"}
       THEN /\ githubUpdateMetadata' =
                   [githubUpdateMetadata EXCEPT !.lastAppliedTag = applying[a].tag]
            /\ StatusBecomes(setUpdateStatus(updateStatus,
                   [ source |-> "github-release-zip", status |-> "installing",
                     updateFilePath |-> applying[a].zipPath, error |-> FALSE ]))
            /\ applying' = [applying EXCEPT ![a].pc = "quitting",
                                ![a].result = ApplyResult(TRUE, "launched", "Bastion-Setup.exe"),
                                ![a].launched = (answer = "launched"),
                                ![a].effects = applying[a].effects \o
                                               <<"spawn", "record", "broadcast", "quit">>]
       ELSE /\ StatusBecomes(setUpdateStatus(updateStatus,
                   [ source |-> "github-release-zip", status |-> "error",
                     updateFilePath |-> applying[a].zipPath, error |-> TRUE ]))
            /\ applying' = [applying EXCEPT ![a].pc = "none",
                                ![a].result = ApplyResult(FALSE, answer, ""),
                                ![a].effects = applying[a].effects \o
                                                   IF answer = "spawnThrows"
                                                   THEN <<"spawn", "broadcast">>
                                                   ELSE <<"broadcast">>]
            /\ UNCHANGED githubUpdateMetadata
    /\ UNCHANGED <<disk, cycles, lastReturned, privVars, fnVars, rendererVars, pushVars, hostRest>>

ExpandEnds == \E a \in ApplyIds, answer \in ExpandAnswers : ExpandEndsOn(a, answer)

UpdaterInit == PrivInit /\ RendererIdle /\ FnIdle /\ PushIdle /\ UpdIdle /\ HostIdle

\* The triggers arrive one after the other.
UpdaterSerialNext ==
    \/ StartCheckAlone
    \/ FetchSettles
    \/ CheckResumes
    \/ AssetResponds
    \/ StreamEnds
    \/ FileRemoved
    \/ InstallDownloadedUpdate
    \/ ExpandEnds

SpecUpdaterSerial == UpdaterInit /\ [][UpdaterSerialNext]_vars

\* Overlapping calls: nothing in the code keeps a trigger from arriving while
\* an earlier call awaits.  The remote side is kept to one release, newer
\* and with its asset, or no answer; the file system to failing streams and
\* renames.
OverlapFetched ==
    { FetchedFrom([ok |-> FALSE, isArray |-> FALSE, payload |-> << >>]),
      FetchedFrom([ok |-> TRUE, isArray |-> TRUE, payload |->
          << PublishedRelease(TagNewer, WantedAsset) >>]) }

OverlapStreamAnswers ==
    [ pipeline : {"ok", "error"}, rename : {"ok", "error"}, unlink : {"ok"}, stat : {"ok"} ]

FetchSettlesOverlapping == FetchSettlesWith(OverlapFetched)

StreamEndsOverlapping == StreamEndsWith(OverlapStreamAnswers)

UpdaterOverlapNext ==
    \/ StartCheck
    \/ FetchSettlesOverlapping
    \/ CheckResumes
    \/ AssetResponds
    \/ StreamEndsOverlapping
    \/ InstallDownloadedUpdate
    \/ ExpandEnds

SpecUpdaterOverlap == UpdaterInit /\ [][UpdaterOverlapNext]_vars

\* Call c moves on: the external call it awaits returns or fails, or the
\* call resumes after one.
CallAdvances(c) == cycles[c].pc # "none" /\ cycles'[c].pc # cycles[c].pc

\* The same behaviours, where every external call of a started call returns
\* or fails and the call resumes after it: weak fairness of each call's
\* steps, which are enabled exactly while the call is in flight.
CheckFairness ==
    \A c \in CycleIds : []<>(cycles[c].pc = "none") \/ []<><<CallAdvances(c)>>_vars

SpecUpdaterOverlapLive == UpdaterInit /\ [][UpdaterOverlapNext]_vars /\ CheckFairness

(***************************************************************************)
(* The updater over process launches: app.whenReady with its startup       *)
(* check and the apply that follows it, the feed updater's events, and the *)
(* process ending and starting again on the same profile.                  *)
(***************************************************************************)
configureUpdateSchedule_without_clearing(timer, config, process) ==
    IF config.useGithubReleaseZip THEN timer
    ELSE IF ~process.autoUpdater \/ ~config.autoCheck \/ ~process.isPackaged THEN timer
    ELSE timer + 1

\* configureUpdateSchedule: the number of interval timers armed afterwards.
configureUpdateSchedule(timer, config, process) ==
    IF config.useGithubReleaseZip THEN 0
    ELSE IF ~process.autoUpdater \/ ~config.autoCheck \/ ~process.isPackaged THEN 0
    ELSE 1

\* applyUpdaterConfig: nothing without the electron-updater module, else
\* the schedule is configured anew.
applyUpdaterConfig(timer, config, process) ==
    IF ~process.autoUpdater THEN timer ELSE configureUpdateSchedule(timer, config, process)

\* configureAutoUpdater, first call: the status it leaves.
configureAutoUpdater(status, config, process) ==
    IF ~process.autoUpdater
    THEN IF config.useGithubReleaseZip THEN status
         ELSE setUpdateStatus(status, [status |-> "disabled"])
    ELSE IF ~process.isPackaged /\ ~config.useGithubReleaseZip
    THEN setUpdateStatus(status, [ source |-> "electron-updater", status |-> "idle",
                                   updateFilePath |-> NoPath, error |-> FALSE ])
    ELSE status

\* The version the feed announces.
FeedVersion == <<"1", ".", "4", ".", "0">>

\* The patches of the feed updater's event handlers: checking-for-update,
\* update-available, update-not-available, download-progress,
\* update-downloaded, error.
FeedPatches(config) ==
    { [ source |-> "electron-updater", status |-> "checking", updateFilePath |-> NoPath,
        error |-> FALSE ],
      [ source |-> "electron-updater",
        status |-> IF config.autoDownload THEN "downloading" ELSE "available",
        availableVersion |-> FeedVersion, downloadedVersion |-> NoVersion,
        updateFilePath |-> NoPath, error |-> FALSE ],
      [ source |-> "electron-updater", status |-> "idle", availableVersion |-> NoVersion,
        downloadedVersion |-> NoVersion, updateFilePath |-> NoPath, error |-> FALSE ],
      [ source |-> "electron-updater", status |-> "downloading", updateFilePath |-> NoPath,
        error |-> FALSE ],
      [ source |-> "electron-updater", status |-> "downloaded",
        availableVersion |-> FeedVersion, downloadedVersion |-> FeedVersion,
        updateFilePath |-> NoPath, error |-> FALSE ],
      [ source |-> "electron-updater", status |-> "error", error |-> TRUE ] }

\* app.whenReady: the persisted state is loaded, the updater configured
\* while there is no window yet, the window created and, with autoCheck, the
\* startup check made on the backend in use.
WhenReady ==
    /\ ~app.ready
    /\ app' = [app EXCEPT !.ready = TRUE]
    /\ updateCheckTimer' = applyUpdaterConfig(updateCheckTimer, updateConfig, app)
    /\ mainWindow' = TRUE
    /\ windowsCreated' = windowsCreated + 1
    /\ readyToShowPending' = TRUE
    /\ LET configured == configureAutoUpdater(updateStatus, updateConfig, app)
       IN IF updateConfig.autoCheck /\ updateConfig.useGithubReleaseZip
          THEN /\ updateStatus' = setUpdateStatus(configured, CheckingPatch)
               /\ updateStatusSent' = sendUpdateStatus(TRUE, windowsCreated + 1,
                                                       updateStatusSent, updateStatus')
               /\ cycles' = [cycles EXCEPT ![1] = [NoCycle EXCEPT !.pc = "fetching",
                                                       !.trigger = "startup",
                                                       !.download = TRUE]]
          ELSE /\ updateStatus' = configured
               /\ UNCHANGED <<cycles, updateStatusSent>>
    /\ UNCHANGED <<githubUpdateMetadata, disk, lastReturned, applying, updateConfig,
                   privVars, fnVars, rendererVars, scheduledCallbacks, statsPushes>>

\* An event of the feed updater, which checks only from packaged builds and
\* only while the archive backend is off.
FeedEvent ==
    /\ app.ready /\ app.autoUpdater /\ app.isPackaged
    /\ ~updateConfig.useGithubReleaseZip
    /\ \E patch \in FeedPatches(updateConfig) :
           /\ setUpdateStatus(updateStatus, patch) # updateStatus
           /\ StatusBecomes(setUpdateStatus(updateStatus, patch))
    /\ UNCHANGED <<githubUpdateMetadata, disk, cycles, lastReturned, applying, privVars, fnVars, rendererVars,
                   pushVars, hostRest>>

\* The process ends, by the quit an apply scheduled or by the user, and is
\* started again: the module state is new, the files and github-update.json
\* are as they were left.
Quit ==
    /\ app.ready
    /\ app.launches < MaxLaunches
    /\ app' = [app EXCEPT !.ready = FALSE, !.launches = app.launches + 1]
    /\ updateStatus' = createInitialUpdateStatus
    /\ cycles' = [c \in CycleIds |-> NoCycle]
    /\ applying' = [a \in ApplyIds |-> NoApply]
    /\ lastReturned' = NoResult
    /\ updateCheckTimer' = 0
    /\ mainWindow' = FALSE
    /\ windowsCreated' = 0
    /\ readyToShowPending' = FALSE
    /\ updateStatusSent' = NothingSent
    /\ UNCHANGED <<githubUpdateMetadata, disk, updateConfig, privVars, fnVars, rendererVars,
                   scheduledCallbacks, statsPushes>>

\* An install arrives, whatever else is in flight, while a slot is free.
InstallDownloadedUpdateAnytime ==
    /\ FreeInstallSlot # 0
    /\ InstallDownloadedUpdateOn(FreeInstallSlot)

\* The configurations a profile may hold.
LaunchConfigs ==
    { [DEFAULT_UPDATE_CONFIG EXCEPT !.autoCheck = autoCheck, !.useGithubReleaseZip = zip,
                                    !.autoApplyGithubZip = autoApply] :
        autoCheck \in BOOLEAN, zip \in BOOLEAN, autoApply \in BOOLEAN }

\* Before app.whenReady, on any build and profile configuration.
HostStarting ==
    /\ updateConfig \in LaunchConfigs
    /\ app \in [autoUpdater : BOOLEAN, isPackaged : BOOLEAN, ready : {FALSE}, launches : {1}]
    /\ updateStatusSent = NothingSent
    /\ updateCheckTimer = 0
    /\ readyToShowPending = FALSE

LaunchInit == PrivInit /\ RendererIdle /\ FnIdle /\ PushIdle /\ UpdIdle /\ HostStarting

\* The remote side is kept to one newer release with its asset, the running
\* version, or no answer; the file system to failing streams.
LaunchFetched ==
    OverlapFetched \cup
    { FetchedFrom([ok |-> TRUE, isArray |-> TRUE, payload |->
          << PublishedRelease(TagRunning, WantedAsset) >>]) }

LaunchStreamAnswers ==
    [ pipeline : {"ok", "error"}, rename : {"ok"}, unlink : {"ok"}, stat : {"ok"} ]

FetchSettlesAtLaunch == FetchSettlesWith(LaunchFetched)

StreamEndsAtLaunch == StreamEndsWith(LaunchStreamAnswers)

UpdaterLaunchNext ==
    \/ WhenReady
    \/ StartCheckAlone
    \/ FetchSettlesAtLaunch
    \/ CheckResumes
    \/ AssetResponds
    \/ StreamEndsAtLaunch
    \/ FileRemoved
    \/ InstallDownloadedUpdateAnytime
    \/ ExpandEnds
    \/ FeedEvent
    \/ Quit

SpecUpdaterLaunches == LaunchInit /\ [][UpdaterLaunchNext]_vars

(***************************************************************************)
(* The schedule of re-checks: the configuration patched while the process  *)
(* runs, and the interval timer ticking.                                   *)
(***************************************************************************)
\* sanitizeUpdateConfig({...updateConfig, ...raw}): a patched key holds the
\* value given when that is a boolean and the default otherwise, the other
\* keys keep their booleans.
sanitizeUpdateConfig(config, raw) ==
    [ key \in DOMAIN config |->
        IF key \in DOMAIN raw THEN sanitizeBoolean(raw[key], DEFAULT_UPDATE_CONFIG[key])
        ELSE config[key] ]

\* Patches of updates:update-config: none, one key, or both backend keys;
\* "1" is a value that is no boolean.
ConfigPatches ==
    { << >> }
    \cup { [key \in {k} |-> value] :
             k \in {"autoCheck", "useGithubReleaseZip", "autoApplyGithubZip"},
             value \in {"true", "false", "1"} }
    \cup { [autoCheck |-> "true", useGithubReleaseZip |-> "false"] }

\* patchUpdateConfig: the status it leaves under the patched configuration.
patchUpdateConfig(status, config, process) ==
    IF ~process.autoUpdater /\ ~config.useGithubReleaseZip
    THEN setUpdateStatus(status, [ source |-> "none", status |-> "disabled",
                                   updateFilePath |-> NoPath, error |-> TRUE ])
    ELSE status

\* updates:update-config.
PatchUpdateConfig ==
    /\ app.ready
    /\ \E raw \in ConfigPatches :
         LET config == sanitizeUpdateConfig(updateConfig, raw)
         IN /\ updateConfig' = config
            /\ updateCheckTimer' = applyUpdaterConfig(updateCheckTimer, config, app)
            /\ StatusBecomes(patchUpdateConfig(updateStatus, config, app))
    /\ UNCHANGED <<githubUpdateMetadata, disk, cycles, lastReturned, applying, privVars, fnVars, rendererVars,
                   pushVars, app, readyToShowPending>>

\* checkForUpdates(manual) to its return, autoUpdater.checkForUpdates()
\* having resolved or rejected.
checkForUpdates(manual, outcome, status, process) ==
    IF ~process.autoUpdater
    THEN [status |-> status, result |-> [NoResult EXCEPT !.kind = "noFeedUpdater"]]
    ELSE IF ~process.isPackaged
    THEN [ status |-> IF manual
                      THEN setUpdateStatus(status, [ source |-> "electron-updater",
                               status |-> "idle", updateFilePath |-> NoPath, error |-> FALSE ])
                      ELSE status,
           result |-> [NoResult EXCEPT !.kind = "notPackaged"] ]
    ELSE IF outcome = "rejects"
    THEN [ status |-> setUpdateStatus(status, [ source |-> "electron-updater",
                          status |-> "error", updateFilePath |-> NoPath, error |-> TRUE ]),
           result |-> [NoResult EXCEPT !.kind = "feedCheckFailed"] ]
    ELSE [ status |-> IF manual
                      THEN setUpdateStatus(status, [ source |-> "electron-updater",
                               status |-> "checking", updateFilePath |-> NoPath,
                               error |-> FALSE ])
                      ELSE status,
           result |-> [NoResult EXCEPT !.ok = TRUE, !.kind = "feedCheck"] ]

\* The callback of setInterval(..., 6 h) runs: checkForUpdates(false).
UpdateCheckTimerFires ==
    /\ app.ready
    /\ updateCheckTimer > 0
    /\ \E outcome \in {"resolves", "rejects"} :
         LET step == checkForUpdates(FALSE, outcome, updateStatus, app)
         IN /\ StatusBecomes(step.status)
            /\ lastReturned' = step.result
    /\ UNCHANGED <<githubUpdateMetadata, disk, cycles, applying, privVars, fnVars, rendererVars, pushVars,
                   hostRest>>

UpdateScheduleNext ==
    \/ WhenReady
    \/ PatchUpdateConfig
    \/ UpdateCheckTimerFires
    \/ StartCheckAlone
    \/ FetchSettlesOverlapping
    \/ CheckResumes
    \/ AssetResponds
    \/ StreamEndsOverlapping
    \/ FeedEvent
    \/ Quit

SpecUpdateSchedule == LaunchInit /\ [][UpdateScheduleNext]_vars

(***************************************************************************)
(* The status as the window receives it: the updater with its window       *)
(* becoming ready, closing, and being created again on activate.           *)
(***************************************************************************)
\* The window's once("ready-to-show"): show() and pushRuntimeStateToRenderer().
ReadyToShow ==
    /\ mainWindow
    /\ readyToShowPending
    /\ readyToShowPending' = FALSE
    /\ updateStatusSent' = sendUpdateStatus(TRUE, windowsCreated, updateStatusSent, updateStatus)
    /\ statsPushes' = sendPrivacyStats(TRUE, statsPushes, privacyStats)
    /\ UNCHANGED <<privVars, fnVars, rendererVars, mainWindow, scheduledCallbacks, windowsCreated, updVars,
                   updateConfig, app, updateCheckTimer>>

\* app.on("activate") with no window left: createWindow().
Activate ==
    /\ app.ready
    /\ ~mainWindow
    /\ windowsCreated < MaxWindows
    /\ mainWindow' = TRUE
    /\ windowsCreated' = windowsCreated + 1
    /\ readyToShowPending' = TRUE
    /\ UNCHANGED <<privVars, fnVars, rendererVars, scheduledCallbacks, statsPushes, updVars,
                   updateConfig, app, updateStatusSent, updateCheckTimer>>

\* Launches of a packaged build on either backend, with and without the
\* electron-updater module.
StatusPushInit ==
    /\ PrivInit /\ RendererIdle /\ FnIdle /\ PushIdle /\ UpdIdle
    /\ updateConfig \in { DEFAULT_UPDATE_CONFIG,
                          [DEFAULT_UPDATE_CONFIG EXCEPT !.useGithubReleaseZip = FALSE] }
    /\ app \in [autoUpdater : BOOLEAN, isPackaged : {TRUE}, ready : {FALSE}, launches : {1}]
    /\ updateStatusSent = NothingSent
    /\ updateCheckTimer = 0
    /\ readyToShowPending = FALSE

StatusPushNext ==
    \/ WhenReady
    \/ ReadyToShow
    \/ WindowClosed
    \/ Activate
    \/ StartCheckAlone
    \/ FetchSettlesOverlapping
    \/ CheckResumes
    \/ AssetResponds
    \/ StreamEndsOverlapping
    \/ InstallDownloadedUpdate
    \/ ExpandEnds
    \/ FeedEvent

SpecStatusPush == StatusPushInit /\ [][StatusPushNext]_vars

(***************************************************************************)
(* Choosing the launcher among the files of an expanded archive.  A file   *)
(* is [dir, words, ext]: the directories under the staging directory, the  *)
(* words of its base name as written, and its extension as written.        *)
(***************************************************************************)
MaxExtracted == 3

NoLauncher == [dir |-> << >>, words |-> << >>, ext |-> ""]

\* String.prototype.toLowerCase on the words and extensions of file names.
LowerCased(word) ==
    CASE word = "Bastion" -> "bastion"
      [] word = "Setup" -> "setup"
      [] word = "Uninstall" -> "uninstall"
      [] word = ".EXE" -> ".exe"
      [] word = ".CMD" -> ".cmd"
      [] OTHER -> word

\* The number of characters of a word, an extension or a directory name.
CharCount(word) ==
    CASE word \in {"Bastion"} -> 7
      [] word \in {"Setup", "setup"} -> 5
      [] word \in {"Uninstall"} -> 9
      [] word \in {"readme"} -> 6
      [] word \in {".exe", ".EXE", ".CMD", ".txt"} -> 4
      [] word \in {"bin"} -> 3
      [] OTHER -> 0

RECURSIVE CharsOf(_)
CharsOf(words) == IF words = << >> THEN 0 ELSE CharCount(Head(words)) + CharsOf(Tail(words))

\* filePath.length: every directory with its separator, the name, the extension.
PathLength(file) == CharsOf(file.dir) + Len(file.dir) + CharsOf(file.words) + CharCount(file.ext)

\* path.basename(filePath).toLowerCase().includes(keyword)
NameIncludes(file, keyword) ==
    \/ \E i \in 1..Len(file.words) : LowerCased(file.words[i]) = keyword
    \/ Len(keyword) > 0 /\ LowerCased(file.ext) = keyword

scoreLauncherCandidate(file) ==
    IF NameIncludes(file, "uninstall") THEN -100
    ELSE (IF NameIncludes(file, "setup") THEN 60 ELSE 0)
       + (IF NameIncludes(file, "installer") THEN 50 ELSE 0)
       + (IF NameIncludes(file, "update") THEN 40 ELSE 0)
       + (IF NameIncludes(file, "portable") THEN 30 ELSE 0)
       + (IF NameIncludes(file, "bastion") THEN 20 ELSE 0)
       + (IF LowerCased(file.ext) = ".exe" THEN 25
          ELSE IF LowerCased(file.ext) \in {".cmd", ".bat"} THEN 10
          ELSE -10)

\* The filter of pickUpdateLauncherFromExtractedFiles.
IsLauncherCandidate(file) == LowerCased(file.ext) \in {".exe", ".cmd", ".bat"}

\* Its comparator: negative when left sorts before right.
CompareLaunchers(left, right) ==
    LET scoreDiff == scoreLauncherCandidate(right) - scoreLauncherCandidate(left)
    IN IF scoreDiff # 0 THEN scoreDiff ELSE PathLength(left) - PathLength(right)

\* Array.prototype.sort is stable: a file goes behind every file that does
\* not sort after it.
RECURSIVE InsertLauncher(_, _)
InsertLauncher(sorted, file) ==
    IF sorted = << >> THEN <<file>>
    ELSE IF CompareLaunchers(Head(sorted), file) <= 0
         THEN <<Head(sorted)>> \o InsertLauncher(Tail(sorted), file)
         ELSE <<file>> \o sorted

RECURSIVE SortLaunchers(_)
SortLaunchers(files) ==
    IF files = << >> THEN << >>
    ELSE InsertLauncher(SortLaunchers(SubSeq(files, 1, Len(files) - 1)), files[Len(files)])

pickUpdateLauncherFromExtractedFiles(files) ==
    LET candidates == SelectSeq(files, IsLauncherCandidate)
    IN IF Len(candidates) = 0 THEN NoLauncher ELSE SortLaunchers(candidates)[1]

\* The files an archive may hold.
ExtractedFiles ==
    [ dir : {<< >>, <<"bin">>},
      words : {<<"Bastion", "Setup">>, <<"setup">>, <<"Uninstall">>, <<"readme">>},
      ext : {".exe", ".CMD", ".txt"} ]

\* The listings of collectFilesRecursive: distinct paths, in any order.
RECURSIVE ListingsOfLength(_)
ListingsOfLength(n) ==
    IF n = 0 THEN { << >> }
    ELSE { Append(listing, file) :
             listing \in ListingsOfLength(n - 1),
             file \in ExtractedFiles }

DistinctPaths(listing) == \A i, j \in 1..Len(listing) : listing[i] = listing[j] => i = j

ExtractedListings ==
    { listing \in UNION { ListingsOfLength(n) : n \in 0..MaxExtracted } : DistinctPaths(listing) }

LauncherPickInit ==
    /\ PrivInit /\ RendererIdle
    /\ PushIdle
    /\ UpdIdle /\ HostIdle
    /\ fnIn \in ExtractedListings
    /\ fnOut = [done |-> FALSE]

\* applyGitHubReleaseZipUpdate between the expanded archive and the spawn:
\* it throws when nothing was picked and launches what was picked.
ApplyPicksLauncher ==
    /\ ~fnOut.done
    /\ LET launcher == pickUpdateLauncherFromExtractedFiles(fnIn)
       IN fnOut' = [ done |-> TRUE,
                     launcher |-> launcher,
                     ok |-> launcher # NoLauncher,
                     launched |-> IF launcher # NoLauncher THEN <<launcher>> ELSE << >> ]
    /\ UNCHANGED <<fnIn, rendererVars, privVars, pushVars, updVars, hostVars>>

SpecLauncherPick == LauncherPickInit /\ [][ApplyPicksLauncher]_vars

(***************************************************************************)
(* Where a tag puts the archive and the staging directory.  A path is the  *)
(* sequence of its segments, a segment the sequence of its characters or   *)
(* a one-element sequence holding a fixed name.                            *)
(***************************************************************************)
\* Longest tag tried.
MaxTagLength == 4

\* app.getPath("userData")
UserDataDir == << <<"userData">> >>

\* getGitHubUpdateDownloadDir()
getGitHubUpdateDownloadDir == UserDataDir \o << <<"updates">> >>

\* path.normalize on the segments: "." is dropped, ".." removes the segment
\* before it.
RECURSIVE NormalizeSegments(_, _)
NormalizeSegments(done, rest) ==
    IF rest = << >> THEN done
    ELSE IF Head(rest) = <<".">> THEN NormalizeSegments(done, Tail(rest))
    ELSE IF Head(rest) = <<".", ".">>
         THEN NormalizeSegments(IF done = << >> THEN done
                                ELSE SubSeq(done, 1, Len(done) - 1), Tail(rest))
    ELSE NormalizeSegments(Append(done, Head(rest)), Tail(rest))

\* path.join
pathJoin(segments) == NormalizeSegments(<< >>, segments)

\* resolveGitHubUpdateTargetPath as a path of the file system.
TargetPathOnDisk(tagValue) ==
    pathJoin(getGitHubUpdateDownloadDir
             \o << sanitizeTagForPath(Trim(tagValue)), <<GITHUB_UPDATE_ASSET_NAME>> >>)

\* resolveGitHubUpdateStagingDir
resolveGitHubUpdateStagingDir(tagValue) ==
    pathJoin(getGitHubUpdateDownloadDir
             \o << <<"staged">>, sanitizeTagForPath(Trim(tagValue)) >>)

\* Characters of the tags tried.
TagCharacters == { ".", "/", "\\", " ", "v", "1" }

RECURSIVE TagsOfLength(_)
TagsOfLength(n) ==
    IF n = 0 THEN { << >> }
    ELSE { Append(tag, c) : tag \in TagsOfLength(n - 1), c \in TagCharacters }

TagStrings == UNION { TagsOfLength(n) : n \in 0..MaxTagLength }

TagPathsInit ==
    /\ PrivInit /\ RendererIdle
    /\ PushIdle
    /\ UpdIdle /\ HostIdle
    /\ fnIn \in TagStrings
    /\ fnOut = [done |-> FALSE]

\* The paths a check and an apply derive from the tag of a release.
ApplyResolvePaths ==
    /\ ~fnOut.done
    /\ fnOut' = [ done |-> TRUE,
                  target |-> TargetPathOnDisk(fnIn),
                  staging |-> resolveGitHubUpdateStagingDir(fnIn) ]
    /\ UNCHANGED <<fnIn, rendererVars, privVars, pushVars, updVars, hostVars>>

SpecTagPaths == TagPathsInit /\ [][ApplyResolvePaths]_vars

(***************************************************************************)
(* The renderer's tabs.  A tab is modelled by its id, a closed-tab entry   *)
(* by its url; ids are never equal for two open tabs (the code builds them *)
(* from the clock and a random suffix), and the model hands out the        *)
(* smallest id that is neither open nor being closed.  The two limits, 20  *)
(* and 30 in renderer.js, are scaled down so that they are reached.        *)
(***************************************************************************)
MAX_TABS == 4

MAX_CLOSED_TABS == 3

TabIds == 1..(MAX_TABS + 1)

NEW_TAB_URL == "bastion://newtab"

OpenIds(tabs) == { tabs[i] : i \in 1..Len(tabs) }

\* An id no open tab has, and not the one given.
FreshId(tabs, avoid) ==
    CHOOSE id \in TabIds \ (OpenIds(tabs) \cup {avoid}) :
        \A other \in TabIds \ (OpenIds(tabs) \cup {avoid}) : id <= other

\* Array.prototype.findIndex on the id, counted from 0; -1 when absent.
findIndex(tabs, tabId) ==
    IF tabId \in OpenIds(tabs)
    THEN (CHOOSE i \in 1..Len(tabs) :
              tabs[i] = tabId /\ \A j \in 1..(i - 1) : tabs[j] # tabId) - 1
    ELSE -1

\* tabs[index], counted from 0; NoTab for undefined.
TabAt(tabs, index) == IF index >= 0 /\ index < Len(tabs) THEN tabs[index + 1] ELSE NoTab

\* tabs.splice(index, 1), index counted from 0.
Spliced(tabs, index) == SubSeq(tabs, 1, index) \o SubSeq(tabs, index + 2, Len(tabs))

\* array.slice(0, n)
Sliced(array, n) == SubSeq(array, 1, IF Len(array) < n THEN Len(array) ELSE n)

activateTab(s, tabId) ==
    IF tabId \notin OpenIds(s.tabs) THEN s ELSE [s EXCEPT !.activeTabId = tabId]

activateTabByIndex(s, index) ==
    IF index < 0 \/ index >= Len(s.tabs) THEN s ELSE activateTab(s, TabAt(s.tabs, index))

\* id is the id the call builds for the new tab.
createTab(s, makeActive, id) ==
    IF Len(s.tabs) >= MAX_TABS
    THEN s
    ELSE LET pushed == [s EXCEPT !.tabs = Append(@, id)]
         IN IF makeActive \/ s.activeTabId = NoTab THEN activateTab(pushed, id) ELSE pushed

closeTab_keeping_active(s, tabId, id) ==
    IF tabId = NoTab \/ findIndex(s.tabs, tabId) < 0
    THEN s
    ELSE LET index == findIndex(s.tabs, tabId)
             closed == [ s EXCEPT !.tabs = Spliced(@, index),
                                  !.closedTabs = Sliced(<<NEW_TAB_URL>> \o @, MAX_CLOSED_TABS) ]
         IN IF Len(closed.tabs) = 0
            THEN createTab([closed EXCEPT !.activeTabId = NoTab], TRUE, id)
            ELSE closed

\* id is the id of the tab the call opens when it closed the last one.
closeTab(s, tabId, id) ==
    IF tabId = NoTab \/ findIndex(s.tabs, tabId) < 0
    THEN s
    ELSE LET index == findIndex(s.tabs, tabId)
             closed == [ s EXCEPT !.tabs = Spliced(@, index),
                                  !.closedTabs = Sliced(<<NEW_TAB_URL>> \o @, MAX_CLOSED_TABS) ]
             fallback == IF TabAt(closed.tabs, index) # NoTab THEN TabAt(closed.tabs, index)
                         ELSE IF TabAt(closed.tabs, index - 1) # NoTab
                              THEN TabAt(closed.tabs, index - 1)
                              ELSE TabAt(closed.tabs, 0)
         IN IF Len(closed.tabs) = 0
            THEN createTab([closed EXCEPT !.activeTabId = NoTab], TRUE, id)
            ELSE IF s.activeTabId = tabId THEN activateTab(closed, fallback) ELSE closed

reopenLastClosedTab(s, id) ==
    IF s.closedTabs = << >>
    THEN s
    ELSE createTab([s EXCEPT !.closedTabs = Tail(@)], TRUE, id)

\* The loop of restoreSession over the first MAX_TABS usable entries of the
\* stored session, count of them still to go.
RECURSIVE RestoreTabs(_, _)
RestoreTabs(s, count) ==
    IF count = 0
    THEN s
    ELSE RestoreTabs(createTab(s, FALSE, FreshId(s.tabs, NoTab)), count - 1)

\* restoreSession where the stored session has count usable entries, or
\* none when restoring is switched off or nothing is stored.
restoreSession(s, count, activeIndex) ==
    LET restored == RestoreTabs(s, IF count < MAX_TABS THEN count ELSE MAX_TABS)
        activeTab == IF TabAt(restored.tabs, activeIndex) # NoTab
                     THEN TabAt(restored.tabs, activeIndex)
                     ELSE TabAt(restored.tabs, 0)
    IN IF count = 0 THEN s
       ELSE IF activeTab # NoTab THEN activateTab(restored, activeTab) ELSE restored

restoreTabsOrCreateFresh(s, count, activeIndex) ==
    LET restored == restoreSession(s, count, activeIndex)
    IN IF Len(restored.tabs) > 0
       THEN restored
       ELSE createTab(restored, TRUE, FreshId(restored.tabs, NoTab))

Initialised == called.op # ""

\* What every tab action leaves alone.
TabFrame == UNCHANGED <<fnVars, privVars, pushVars, updVars, hostVars>>

RestoreTabsOrCreateFresh ==
    /\ ~Initialised
    /\ \E count \in 0..(MAX_TABS + 1), activeIndex \in -1..MAX_TABS :
          /\ state' = restoreTabsOrCreateFresh(state, count, activeIndex)
          /\ called' = [op |-> "restoreTabsOrCreateFresh", arg |-> count]
    /\ TabFrame

CreateTab ==
    /\ Initialised
    /\ \E makeActive \in BOOLEAN :
          /\ state' = createTab(state, makeActive, FreshId(state.tabs, NoTab))
          /\ called' = [op |-> "createTab", arg |-> IF makeActive THEN 1 ELSE 0]
    /\ TabFrame

\* closeTab with the id of an open tab, of a tab no longer open, or null.
CloseTab ==
    /\ Initialised
    /\ \E tabId \in TabIds \cup {NoTab} :
          /\ state' = closeTab(state, tabId, FreshId(state.tabs, tabId))
          /\ called' = [op |-> "closeTab", arg |-> tabId]
    /\ TabFrame

ActivateTab ==
    /\ Initialised
    /\ \E tabId \in TabIds \cup {NoTab} :
          /\ state' = activateTab(state, tabId)
          /\ called' = [op |-> "activateTab", arg |-> tabId]
    /\ TabFrame

ActivateTabByIndex ==
    /\ Initialised
    /\ \E index \in -1..MAX_TABS :
          /\ state' = activateTabByIndex(state, index)
          /\ called' = [op |-> "activateTabByIndex", arg |-> index]
    /\ TabFrame

ReopenLastClosedTab ==
    /\ Initialised
    /\ state' = reopenLastClosedTab(state, FreshId(state.tabs, NoTab))
    /\ called' = [op |-> "reopenLastClosedTab", arg |-> 0]
    /\ TabFrame

TabsInit == PrivInit /\ RendererIdle /\ FnIdle /\ PushIdle /\ UpdIdle /\ HostIdle

TabsNext ==
    \/ RestoreTabsOrCreateFresh
    \/ CreateTab
    \/ CloseTab
    \/ ActivateTab
    \/ ActivateTabByIndex
    \/ ReopenLastClosedTab

SpecTabs == TabsInit /\ [][TabsNext]_vars

(***************************************************************************)
(* Vocabulary of the properties, stated on the request and the reply       *)
(***************************************************************************)
\* The lower-cased host of a raw URL, << >> when it is no URL.
HostOf(u) == IF u.form = "url" THEN [i \in 1..Len(u.host) |-> toLowerCase(u.host[i])] ELSE << >>

SchemeOf(u) == IF u.form = "url" THEN toLowerCase(u.scheme) ELSE ""

\* h equals a tracker-list entry or is a dot-subdomain of one.
OnTrackerList(h) ==
    \E rule \in TRACKER_HOST_RULES : \E n \in 0..Len(h) : SubSeq(h, n + 1, Len(h)) = rule

Labels(h) == SelectSeq(h, LAMBDA l : l # "")

IsLoopback(h) == h \in { <<"localhost">>, <<"127", "0", "0", "1">>, <<"::1">>, <<"[::1]">> }

IsDotLocalhost(h) == Len(h) >= 2 /\ h[Len(h)] = "localhost"

LastTwoLabels(h) == << Labels(h)[Len(Labels(h)) - 1], Labels(h)[Len(Labels(h))] >>

\* The site key as the specification words it.
SiteKeyAsWorded(h) ==
    IF IsLoopback(h) \/ IsIPv4Literal(h) \/ Len(Labels(h)) <= 2 THEN h ELSE LastTwoLabels(h)

\* The site key with hosts under .localhost kept whole as well.
SiteKey(h) ==
    IF IsLoopback(h) \/ IsDotLocalhost(h) \/ IsIPv4Literal(h) \/ Len(Labels(h)) <= 2
    THEN h ELSE LastTwoLabels(h)

BothParse(u, i) == HostOf(u) # << >> /\ HostOf(i) # << >>

CrossSite(u, i) == BothParse(u, i) /\ SiteKey(HostOf(u)) # SiteKey(HostOf(i))

BlockCondition ==
    /\ privacyConfig.blockTrackers
    /\ details.resourceType \in TRACKER_RESOURCE_TYPES
    /\ OnTrackerList(HostOf(details.url))
    /\ (details.initiator.form = "empty" \/ CrossSite(details.url, details.initiator))

ExemptHost(h) == IsLoopback(h) \/ IsIPv4Literal(h) \/ IsDotLocalhost(h)

UpgradeCondition ==
    /\ privacyConfig.upgradeHttps
    /\ SchemeOf(details.url) = "http:"
    /\ HostOf(details.url) # << >>
    /\ ~ExemptHost(HostOf(details.url))

Cancelled == reply.cancel

Redirected == reply.redirectURL # EmptyString

PassedThrough == reply.calls = 1 /\ ~Cancelled /\ ~Redirected

\* A step in which the named handler runs.
Runs(name) == hook = "idle" /\ hook' = name

CounterStep(key, n) == privacyStats'[key] = privacyStats[key] + n

\* C1: a request that meets both the block and the upgrade condition is
\* cancelled, never redirected, and counts as blocked, not as upgraded.
C1_BlockBeforeUpgrade ==
    [][ (Runs("onBeforeRequest") /\ BlockCondition' /\ UpgradeCondition')
        => /\ Cancelled' /\ ~Redirected'
           /\ CounterStep("blockedRequests", 1)
           /\ CounterStep("upgradedToHttps", 0) ]_vars

C1_Witness ==
    /\ hook = "onBeforeRequest"
    /\ BlockCondition /\ UpgradeCondition
    /\ Cancelled
    /\ privacyStats.blockedRequests >= 1

\* C2: the request is cancelled exactly when tracker blocking is on, the
\* resource type is trackable, the host is on the tracker list and the
\* initiator is unknown or of another site; a mainFrame request and a
\* same-site tracker request are never cancelled.
C2_CancelIffTracker ==
    hook = "onBeforeRequest" =>
        /\ Cancelled <=> BlockCondition
        /\ details.resourceType = "mainFrame" => ~Cancelled
        /\ (/\ BothParse(details.url, details.initiator)
            /\ ~CrossSite(details.url, details.initiator)) => ~Cancelled

C2_Witness ==
    /\ hook = "onBeforeRequest"
    /\ Cancelled
    /\ details.initiator.form = "empty"
    /\ HostOf(details.url) = <<"ads", "doubleclick", "net">>

AnyPrivacyConfig == [DOMAIN DEFAULT_PRIVACY_CONFIG -> BOOLEAN]

\* C3: a redirect happens only for an http URL of a non-exempt host with
\* upgradeHttps on, goes to the same URL under https, is never followed by a
\* second redirect of its target, and is the only thing that counts as an
\* upgrade.
C3_UpgradeOnce ==
    [][ Runs("onBeforeRequest") =>
          /\ Redirected' => (UpgradeCondition' /\ ~Cancelled')
          /\ Redirected' =>
                /\ reply'.redirectURL = [details'.url EXCEPT !.scheme = "https:"]
                /\ \A c \in AnyPrivacyConfig :
                      onBeforeRequest(c, [details' EXCEPT !.url = reply'.redirectURL]).redirectURL
                          = EmptyString
          /\ (SchemeOf(details'.url) = "https:" \/ ExemptHost(HostOf(details'.url)))
                => (~Redirected' /\ (~Cancelled' => PassedThrough'))
          /\ CounterStep("upgradedToHttps", IF Redirected' THEN 1 ELSE 0) ]_vars

C3_Witness ==
    /\ hook = "onBeforeRequest"
    /\ Redirected
    /\ details.url.scheme = "HTTP:"
    /\ privacyStats.upgradedToHttps >= 1

\* C4: a request whose URL cannot be parsed is answered once, with the
\* pass-through answer; every intercepted request is answered exactly once.
C4_FailOpen ==
    /\ (hook = "onBeforeRequest" /\ details.url.form # "url") => PassedThrough
    /\ hook \in {"onBeforeRequest", "onBeforeSendHeaders"} => reply.calls = 1

C4_Witness ==
    /\ hook = "onBeforeRequest"
    /\ details.url = NotAUrl
    /\ details.resourceType = "script"
    /\ privacyConfig.blockTrackers /\ privacyConfig.upgradeHttps
    /\ PassedThrough

\* The entries of a header object whose name, lower-cased, is name.
Named(headers, name) == SelectSeq(headers, LAMBDA e : toLowerCase(e.k) = name)

\* The entries whose name is none of names.
Others(headers, names) == SelectSeq(headers, LAMBDA e : toLowerCase(e.k) \notin names)

\* Exactly one header of that name, with value "1", when on; none when off.
SignalHeader(headers, name, on) ==
    IF on THEN Len(Named(headers, name)) = 1 /\ Named(headers, name)[1].v = "1"
    ELSE Named(headers, name) = << >>

\* C5 as stated: DNT: 1 is sent iff sendDoNotTrack, Sec-GPC: 1 iff
\* sendGlobalPrivacyControl, and every other header leaves the hook as it
\* came in.
C5_AllOtherHeadersUnchanged ==
    hook = "onBeforeSendHeaders" =>
        /\ SignalHeader(reply.requestHeaders, "dnt", privacyConfig.sendDoNotTrack)
        /\ SignalHeader(reply.requestHeaders, "sec-gpc", privacyConfig.sendGlobalPrivacyControl)
        /\ Others(reply.requestHeaders, {"dnt", "sec-gpc"})
               = Others(details.requestHeaders, {"dnt", "sec-gpc"})

\* C5, amended: DNT: 1 is sent iff sendDoNotTrack, Sec-GPC: 1 iff
\* sendGlobalPrivacyControl, for every incoming header set; the headers
\* other than DNT, Sec-GPC and Cookie leave the hook as they came in, and
\* the Cookie header is either unchanged or removed.
C5_SignalHeaders ==
    hook = "onBeforeSendHeaders" =>
        /\ SignalHeader(reply.requestHeaders, "dnt", privacyConfig.sendDoNotTrack)
        /\ SignalHeader(reply.requestHeaders, "sec-gpc", privacyConfig.sendGlobalPrivacyControl)
        /\ Others(reply.requestHeaders, {"dnt", "sec-gpc", "cookie"})
               = Others(details.requestHeaders, {"dnt", "sec-gpc", "cookie"})
        /\ Named(reply.requestHeaders, "cookie")
               \in { Named(details.requestHeaders, "cookie"), << >> }

C5_Witness ==
    /\ hook = "onBeforeSendHeaders"
    /\ ~privacyConfig.sendDoNotTrack /\ privacyConfig.sendGlobalPrivacyControl
    /\ Named(details.requestHeaders, "dnt") # << >>
    /\ Named(details.requestHeaders, "sec-gpc") # << >>
    /\ \E i \in 1..Len(details.requestHeaders) : details.requestHeaders[i].k = "Dnt"
    /\ Named(reply.requestHeaders, "dnt") = << >>

CookieRemoved ==
    /\ Named(details.requestHeaders, "cookie") # << >>
    /\ Named(reply.requestHeaders, "cookie") = << >>

\* C6: the Cookie header is removed, and strippedCookieHeaders goes up by
\* one, exactly when blockThirdPartyCookies is on, a Cookie header came in
\* and the request's site differs from its initiator's; never for a
\* same-site request or an unknown or unparseable initiator.
C6_CookieOnlyCrossSite ==
    [][ Runs("onBeforeSendHeaders") =>
          /\ CookieRemoved' <=>
                /\ privacyConfig.blockThirdPartyCookies
                /\ Named(details'.requestHeaders, "cookie") # << >>
                /\ CrossSite(details'.url, details'.initiator)
          /\ HostOf(details'.initiator) = << >> => ~CookieRemoved'
          /\ (/\ BothParse(details'.url, details'.initiator)
              /\ SiteKey(HostOf(details'.url)) = SiteKey(HostOf(details'.initiator)))
                => ~CookieRemoved'
          /\ ~CookieRemoved' =>
                Named(reply'.requestHeaders, "cookie") = Named(details'.requestHeaders, "cookie")
          /\ CounterStep("strippedCookieHeaders", IF CookieRemoved' THEN 1 ELSE 0) ]_vars

C6_Witness ==
    /\ hook = "onBeforeSendHeaders"
    /\ CookieRemoved
    /\ privacyStats.strippedCookieHeaders = 1
    /\ HostOf(details.url) = <<"a", "com">>
    /\ HostOf(details.initiator) = <<"www", "doubleclick", "net">>

\* The Referer header is gone or blank.
RefererStripped ==
    \A i \in 1..Len(Named(reply.requestHeaders, "referer")) :
        Named(reply.requestHeaders, "referer")[i].v = ""

\* C7: with stripThirdPartyReferer on, as the settings page holds it, a
\* cross-site request leaves the hook without its Referer header; a
\* same-site request keeps it.
C7_RefererStripped ==
    hook = "onBeforeSendHeaders" =>
        /\ (/\ RendererPrivacyConfig(privacyConfig).stripThirdPartyReferer
            /\ CrossSite(details.url, details.initiator)
            /\ Named(details.requestHeaders, "referer") # << >>) => RefererStripped
        /\ ~CrossSite(details.url, details.initiator) =>
              Named(reply.requestHeaders, "referer") = Named(details.requestHeaders, "referer")

\* What isThirdParty answers for the pair, keyA and keyB being the site
\* keys of the two hosts.
ThirdPartyAnswer(keyA, keyB) ==
    LET a == HostOf(fnIn[1])
        b == HostOf(fnIn[2])
    IN fnOut.done =>
        /\ (a # << >> /\ b # << >>) =>
              /\ fnOut.thirdParty = (keyA # keyB)
              /\ fnOut.thirdParty = fnOut.reverse
              /\ a = b => ~fnOut.thirdParty
              /\ fnOut.requestKey = keyA
              /\ fnOut.initiatorKey = keyB
        /\ (a = << >> \/ b = << >>) => ~fnOut.thirdParty

\* C8 as stated: isThirdParty is the inequality of the site keys of two
\* parsed hosts, symmetric, false on equal hosts and on a parse failure,
\* where the site key is the host itself for loopback hosts, IPv4 literals
\* and hosts of at most two labels, and the last two labels otherwise.
C8_SiteKeyAsWorded ==
    ThirdPartyAnswer(SiteKeyAsWorded(HostOf(fnIn[1])), SiteKeyAsWorded(HostOf(fnIn[2])))

\* C8, amended: the same, where the site key also keeps every host that
\* ends in .localhost whole.
C8_ThirdPartyBySiteKey ==
    ThirdPartyAnswer(SiteKey(HostOf(fnIn[1])), SiteKey(HostOf(fnIn[2])))

C8_Witness ==
    /\ fnOut.done
    /\ HostOf(fnIn[1]) = <<"a", "7", "localhost">>
    /\ HostOf(fnIn[2]) = <<"com", "7", "localhost">>
    /\ fnOut.thirdParty
    /\ fnOut.requestKey = <<"a", "7", "localhost">>

\* The gate as the specification words it.
GateAllows(config, capability) ==
    IF config.blockFingerprintingPermissions /\ capability \in FINGERPRINTING_PERMISSIONS
    THEN FALSE
    ELSE capability \in { "fullscreen", "notifications", "clipboard-read", "media" }

\* C9: both permission handlers answer as the gate does, a function of the
\* config and the capability alone, and they agree on every capability
\* whatever has been decided before.
C9_PermissionGate ==
    /\ hook \in {"permissionRequest", "permissionCheck"} =>
          reply.granted = GateAllows(privacyConfig, details.permission)
    /\ \A p \in Permissions :
          permissionRequestHandler(privacyConfig, p).granted
              = permissionCheckHandler(privacyConfig, p).granted

C9_Witness ==
    /\ hook = "permissionRequest"
    /\ ~privacyConfig.blockFingerprintingPermissions
    /\ details.permission = "midi"
    /\ ~reply.granted
    /\ privacyStats.blockedPermissions = 1

Counters == DOMAIN createEmptyPrivacyStats

Unpushed == statsPushes.snapshot # privacyStats

TimerFired == scheduledCallbacks' < scheduledCallbacks

\* C11: at most one stats timer is pending; the increments made while it is
\* pending give exactly one push, of all of them, when it fires; an increment
\* sends nothing by itself; and while the window exists every increment is
\* eventually in a pushed snapshot.
C11_Debounced ==
    /\ [](scheduledCallbacks <= 1)
    /\ [](privacyStatsBroadcastTimer <=> scheduledCallbacks = 1)
    /\ [][ /\ (TimerFired /\ mainWindow) =>
                  /\ statsPushes'.count = statsPushes.count + 1
                  /\ statsPushes'.snapshot = privacyStats
                  /\ scheduledCallbacks' = 0
           /\ privacyStats' # privacyStats => statsPushes' = statsPushes ]_vars
    /\ ((mainWindow /\ Unpushed) ~> (~mainWindow \/ ~Unpushed))

\* A burst of two increments behind one timer went out as one push: the
\* window's first push plus one.
C11_Witness ==
    /\ windowsCreated = 1
    /\ mainWindow
    /\ EventsSoFar = 2
    /\ statsPushes = [count |-> 2, snapshot |-> privacyStats]
    /\ scheduledCallbacks = 0


(***************************************************************************)
(* C12                                                                     *)
(***************************************************************************)
\* The PrivacyConfig fields of the data model.
PrivacyConfigFields ==
    { "blockTrackers", "upgradeHttps", "sendDoNotTrack", "sendGlobalPrivacyControl",
      "blockThirdPartyCookies", "stripThirdPartyReferer", "blockFingerprintingPermissions",
      "clearDataOnExit" }

PatchedKeys == IF details'.payload.isObject THEN DOMAIN details'.payload.fields ELSE {}

\* C12: after a load and after every patch, whatever the payload, each field
\* of the data model is present in privacyConfig and holds a boolean; a patch
\* leaves the fields it does not name as they were.
C12_EveryFieldBoolean ==
    /\ [](\A k \in PrivacyConfigFields :
            k \in DOMAIN privacyConfig /\ privacyConfig[k] \in BOOLEAN)
    /\ [][ hook' = "patchPrivacyConfig" =>
             \A k \in (DOMAIN privacyConfig) \ PatchedKeys :
                 k \in DOMAIN privacyConfig' /\ privacyConfig'[k] = privacyConfig[k] ]_vars

(***************************************************************************)
(* C13                                                                     *)
(***************************************************************************)
Payload == fnIn[1].payload
AllowPrerelease == fnIn[2]
Chosen == Payload[fnOut.release]

NonDrafts == { i \in 1..Len(Payload) : Payload[i].isObject /\ ~Payload[i].draft }

\* published_at, else created_at, as a time; what does not parse is epoch 0.
PublishedOrCreated(release) ==
    LET stamp == IF release.published_at.kind = "missing"
                 THEN release.created_at ELSE release.published_at
    IN IF stamp.kind = "date" THEN stamp.ms ELSE 0

\* The releases the choice is made among.
Eligible ==
    IF AllowPrerelease \/ \A i \in NonDrafts : Payload[i].prerelease
    THEN NonDrafts
    ELSE { i \in NonDrafts : ~Payload[i].prerelease }

\* C13: the release returned is never a draft; it is a prerelease only when
\* prereleases are allowed or every non-draft release is one; none of the
\* releases it was chosen among has a later timestamp; and null is returned
\* exactly when the payload holds no non-draft release.
C13_LatestRelease ==
    (fnOut.done /\ ~fnOut.threw) =>
        /\ fnOut.release = 0 <=> NonDrafts = {}
        /\ fnOut.release # 0 =>
             /\ fnOut.release \in NonDrafts
             /\ Chosen.prerelease =>
                    AllowPrerelease \/ \A i \in NonDrafts : Payload[i].prerelease
             /\ fnOut.release \in Eligible
             /\ \A i \in Eligible : PublishedOrCreated(Chosen) >= PublishedOrCreated(Payload[i])

\* Prereleases are off: the later prerelease is passed over for the stable
\* release behind it, whose timestamp does not parse.
C13_Witness ==
    /\ fnOut.done /\ ~fnOut.threw
    /\ ~AllowPrerelease
    /\ Len(Payload) = 2
    /\ Payload[1].isObject /\ Payload[1].prerelease /\ ~Payload[1].draft
    /\ PublishedOrCreated(Payload[1]) = 3
    /\ Payload[2].isObject /\ ~Payload[2].prerelease /\ ~Payload[2].draft
    /\ PublishedOrCreated(Payload[2]) = 0
    /\ fnOut.release = 2

(***************************************************************************)
(* C15                                                                     *)
(***************************************************************************)
\* The positions where the zero-padded component lists differ.
Differing(left, right) ==
    { i \in 1..(Len(left) + Len(right)) : PartOrZero(left, i) # PartOrZero(right, i) }

FirstDiffering(differing) == CHOOSE i \in differing : \A j \in differing : i <= j

\* C15: compareVersions is 0 when either side has no numeric part, else the
\* sign of the first differing component after padding the shorter list with
\* zeros (0 when none differs); and compareVersions(a, b) = -compareVersions(b, a).
C15_CompareVersions ==
    fnOut.done =>
        LET left == parseVersionParts(fnIn[1])
            right == parseVersionParts(fnIn[2])
            differing == Differing(left, right)
            first == FirstDiffering(differing)
        IN /\ fnOut.forward = - fnOut.backward
           /\ (left = <<>> \/ right = <<>>) => fnOut.forward = 0
           /\ (left # <<>> /\ right # <<>>) =>
                fnOut.forward =
                    IF differing = {} THEN 0
                    ELSE IF PartOrZero(left, first) > PartOrZero(right, first) THEN 1 ELSE -1

\* 2.2.0 compared with 2.10.0: below it, by number and not by text.
C15_Witness ==
    /\ fnOut.done
    /\ fnIn[1] = <<"2", ".", "2", ".", "0">>
    /\ fnIn[2] = <<"2", ".", "1", "0", ".", "0">>
    /\ fnOut.forward = -1

(***************************************************************************)
(* C14                                                                     *)
(***************************************************************************)
\* The step in which call c resumes after the release fetch.
Resumes(c) == cycles[c].pc = "fetched" /\ cycles'[c].pc # "fetched"

FetchedRelease(c) == cycles[c].fetched.release

\* The fetch gave a release with a tag name.
TaggedRelease(c) ==
    /\ ~cycles[c].fetched.threw
    /\ FetchedRelease(c).isObject
    /\ FetchedRelease(c).tag_name # << >>

\* -1, 0 or 1: the remote version against the running one, component by
\* component, the shorter padded with zeros.
RemoteAgainstRunning(c) ==
    LET remote == parseVersionParts(normalizeVersionFromTag(FetchedRelease(c).tag_name))
        running == parseVersionParts(AppVersion)
        differing == Differing(remote, running)
        first == FirstDiffering(differing)
    IN IF differing = {} THEN 0
       ELSE IF PartOrZero(remote, first) > PartOrZero(running, first) THEN 1 ELSE -1

VersionsParse(c) ==
    /\ parseVersionParts(normalizeVersionFromTag(FetchedRelease(c).tag_name)) # << >>
    /\ parseVersionParts(AppVersion) # << >>

\* No asset is named like the expected one, letter case aside, or the one
\* that is has no download URL.
NoUsableAsset(c) ==
    LET assets == FetchedRelease(c).assets
    IN \A i \in 1..Len(assets) :
           toLowerCase(assets[i].name) = toLowerCase(GITHUB_UPDATE_ASSET_NAME)
               => ~assets[i].browser_download_url

\* C14: when the release fetched is newer than the running version and has
\* no usable asset, the call ends with status error and ok false, starts no
\* download, and leaves the metadata and the files as they were, with and
\* without the download option.
C14_NoAssetHardStop ==
    [][ \A c \in CycleIds :
          (Resumes(c) /\ TaggedRelease(c) /\ VersionsParse(c) /\ RemoteAgainstRunning(c) = 1
             /\ NoUsableAsset(c))
          => /\ updateStatus'.status = "error"
             /\ updateStatus'.error
             /\ cycles'[c].pc = "none"
             /\ ~lastReturned'.ok
             /\ lastReturned'.kind = "noAsset"
             /\ githubUpdateMetadata' = githubUpdateMetadata
             /\ disk' = disk ]_vars

\* The release 1.3.0 was downloaded before, then found without its asset.
C14_Witness ==
    /\ lastReturned.kind = "noAsset"
    /\ updateStatus.status = "error"
    /\ updateStatus.availableVersion = <<"1", ".", "3", ".", "0">>
    /\ githubUpdateMetadata.lastTag = TagNewer
    /\ \A c \in CycleIds : cycles[c].pc = "none"

(***************************************************************************)
(* C16                                                                     *)
(***************************************************************************)
\* The step in which the asset download of call c throws.
DownloadThrows(c) ==
    /\ cycles[c].pc \in {"requesting", "streaming"}
    /\ cycles'[c].pc = "none"
    /\ lastReturned'.kind = "downloadFailed"

\* C16: no file at a final path is ever half-written, and when a download
\* fails, at whatever point, its temp file does not exist afterwards.
C16_AtomicDownload ==
    /\ [](\A path \in Paths : path.ext = "" => disk[path] # "partial")
    /\ [][ \A c \in CycleIds :
             DownloadThrows(c)
             => LET targetPath == resolveGitHubUpdateTargetPath(cycles[c].tag)
                IN /\ disk'[targetPath] # "partial"
                   /\ disk'[TempPathOf(targetPath)] = "absent" ]_vars

(***************************************************************************)
(* C17                                                                     *)
(***************************************************************************)
\* The first asset named like the expected one has a download URL.
UsableAsset(c) ==
    LET assets == FetchedRelease(c).assets
    IN \E i \in 1..Len(assets) :
           /\ toLowerCase(assets[i].name) = toLowerCase(GITHUB_UPDATE_ASSET_NAME)
           /\ assets[i].browser_download_url
           /\ \A j \in 1..(i - 1) :
                  toLowerCase(assets[j].name) # toLowerCase(GITHUB_UPDATE_ASSET_NAME)

\* The call before c downloaded, or found downloaded, the release that c has
\* now fetched, and the file is still on disk.
SameReleaseAgain(c) ==
    /\ TaggedRelease(c)
    /\ UsableAsset(c)
    /\ lastReturned.kind \in {"downloaded", "alreadyDownloaded"}
    /\ lastReturned.tag = Trim(FetchedRelease(c).tag_name)
    /\ disk[lastReturned.filePath] # "absent"

\* C17: a call with download that follows a call which downloaded the same
\* release, the file still being on disk, downloads nothing: it returns ok
\* with alreadyDownloaded and leaves status downloaded, or idle when that tag
\* was applied.
C17_Idempotent ==
    [][ \A c \in CycleIds :
          (Resumes(c) /\ cycles[c].download /\ SameReleaseAgain(c))
          => /\ cycles'[c].pc = "none"
             /\ lastReturned'.ok
             /\ lastReturned'.kind = "alreadyDownloaded"
             /\ disk' = disk
             /\ githubUpdateMetadata' = githubUpdateMetadata
             /\ updateStatus'.status =
                    IF githubUpdateMetadata.lastAppliedTag = lastReturned.tag
                    THEN "idle" ELSE "downloaded" ]_vars

\* The second call has returned; the one download of v1.3.0 is on disk.
C17_Witness ==
    /\ lastReturned.ok
    /\ lastReturned.kind = "alreadyDownloaded"
    /\ ~lastReturned.alreadyApplied
    /\ lastReturned.tag = TagNewer
    /\ updateStatus.status = "downloaded"
    /\ disk[resolveGitHubUpdateTargetPath(TagNewer)] = "complete"
    /\ disk[TempPathOf(resolveGitHubUpdateTargetPath(TagNewer))] = "absent"
    /\ \A c \in CycleIds : cycles[c].pc = "none"

(***************************************************************************)
(* C18                                                                     *)
(***************************************************************************)
\* Call c is awaiting the asset's response or streaming it into the temp file.
Downloading(c) == cycles[c].pc \in {"requesting", "streaming"}

\* C18: whatever triggers the calls, no two of them are downloading the asset
\* of the same tag at the same time, so no two streams write one temp file.
C18_OneCycleInFlight ==
    \A c \in CycleIds : \A d \in CycleIds \ {c} :
        ~(Downloading(c) /\ Downloading(d) /\ cycles[c].tag = cycles[d].tag)

(***************************************************************************)
(* C19                                                                     *)
(***************************************************************************)
\* The steps of call c, in their order: it is called, the release fetch
\* settles, it resumes, the asset responds, the stream ends.
Called(c) == cycles[c].pc = "none" /\ cycles'[c].pc = "fetching"
Settles(c) == cycles[c].pc = "fetching" /\ cycles'[c].pc = "fetched"
StreamOpens(c) == cycles[c].pc = "requesting" /\ cycles'[c].pc = "streaming"
DownloadReturns(c) ==
    cycles[c].pc = "streaming" /\ cycles'[c].pc = "none" /\ ~DownloadThrows(c)

\* Call c has fetched a release newer than the running version that carries
\* the asset and is not downloaded yet, and is to download it.
FirstDownload(c) ==
    /\ cycles[c].download
    /\ TaggedRelease(c) /\ VersionsParse(c) /\ RemoteAgainstRunning(c) = 1
    /\ UsableAsset(c)
    /\ githubUpdateMetadata.lastTag # Trim(FetchedRelease(c).tag_name)

WithoutLeadingV(tag) == IF tag # << >> /\ Head(tag) \in {"v", "V"} THEN Tail(tag) ELSE tag

\* The install request got past its platform and file tests.
InstallStarts(a) == applying[a].pc = "none" /\ applying'[a].pc = "expanding"
LauncherStarted(a) == applying[a].pc = "expanding" /\ applying'[a].pc = "quitting"

\* C19: a check with download of a newer release carrying the asset takes
\* the status to checking when called, to downloading when it resumes and to
\* downloaded when the download returns, its other steps leaving the status
\* alone; it ends with downloadedVersion the tag without its leading v and
\* the metadata holding tag, path and size.  An install then takes the status
\* to installing and, when a launcher was started, returns ok with its path.
C19_EndToEnd ==
    [][ /\ \A c \in CycleIds :
             /\ Called(c) => updateStatus'.status = "checking"
             /\ (Settles(c) \/ StreamOpens(c)) => updateStatus' = updateStatus
             /\ (Resumes(c) /\ FirstDownload(c))
                => /\ updateStatus'.status = "downloading"
                   /\ cycles'[c].pc = "requesting"
             /\ DownloadReturns(c)
                => LET tag == cycles[c].tag
                       targetPath == resolveGitHubUpdateTargetPath(tag)
                   IN /\ updateStatus'.status = "downloaded"
                      /\ updateStatus'.downloadedVersion = WithoutLeadingV(tag)
                      /\ updateStatus'.updateFilePath = targetPath
                      /\ lastReturned'.ok /\ lastReturned'.kind = "downloaded"
                      /\ githubUpdateMetadata'.lastTag = tag
                      /\ githubUpdateMetadata'.filePath = targetPath
                      /\ githubUpdateMetadata'.sizeBytes = FileSize(disk'[targetPath])
                      /\ githubUpdateMetadata'.sizeBytes > 0
        /\ \A a \in ApplyIds :
             /\ InstallStarts(a) => updateStatus'.status = "installing"
             /\ LauncherStarted(a) => /\ updateStatus'.status = "installing"
                                      /\ applying'[a].result.ok
                                      /\ applying'[a].result.launcherPath # "" ]_vars

\* v1.3.0 was downloaded by the one check made, then installed.
C19_Witness ==
    /\ lastReturned.kind = "downloaded"
    /\ lastReturned.tag = TagNewer
    /\ updateStatus.status = "installing"
    /\ updateStatus.downloadedVersion = <<"1", ".", "3", ".", "0">>
    /\ githubUpdateMetadata.lastTag = TagNewer
    /\ githubUpdateMetadata.filePath = resolveGitHubUpdateTargetPath(TagNewer)
    /\ githubUpdateMetadata.sizeBytes = 2
    /\ applying[1].pc = "quitting"
    /\ applying[1].manual
    /\ applying[1].launched
    /\ applying[1].result.ok
    /\ applying[1].result.launcherPath = "Bastion-Setup.exe"

NewerNotOnDisk(c) ==
    /\ TaggedRelease(c) /\ VersionsParse(c) /\ RemoteAgainstRunning(c) = 1
    /\ UsableAsset(c)
    /\ disk[resolveGitHubUpdateTargetPath(Trim(FetchedRelease(c).tag_name))] = "absent"

\* C21: the handler of updates:check calls without download, and a call
\* without download that finds a newer release with its asset, not on disk,
\* ends with status available, no downloaded version and no file path, ok
\* with available, no asset request, metadata and files as they were.
C21_CheckOnlySurfaces ==
    /\ [](\A c \in CycleIds : cycles[c].trigger = "updates:check" => ~cycles[c].download)
    /\ [][ \A c \in CycleIds :
             (Resumes(c) /\ ~cycles[c].download /\ NewerNotOnDisk(c))
             => /\ updateStatus'.status = "available"
                /\ updateStatus'.availableVersion =
                       WithoutLeadingV(Trim(FetchedRelease(c).tag_name))
                /\ updateStatus'.downloadedVersion = NoVersion
                /\ updateStatus'.updateFilePath = NoPath
                /\ ~updateStatus'.error
                /\ cycles'[c].pc = "none"
                /\ lastReturned'.ok /\ lastReturned'.kind = "available"
                /\ githubUpdateMetadata' = githubUpdateMetadata
                /\ disk' = disk ]_vars

\* A check found v1.3.0 after its downloaded file had been removed.
C21_Witness ==
    /\ lastReturned.kind = "available"
    /\ lastReturned.tag = TagNewer
    /\ updateStatus.status = "available"
    /\ updateStatus.availableVersion = <<"1", ".", "3", ".", "0">>
    /\ updateStatus.downloadedVersion = NoVersion
    /\ githubUpdateMetadata.lastTag = TagNewer
    /\ \A path \in Paths : disk[path] = "absent"
    /\ \A c \in CycleIds : cycles[c].pc = "none"

(***************************************************************************)
(* C22                                                                     *)
(***************************************************************************)
\* The step in which an install request is handled in slot a.
InstallRequested(a) ==
    /\ applying[a].pc = "none"
    /\ applying'[a] # applying[a]
    /\ applying'[a].manual

ArchiveBackend == updateStatus.source = "github-release-zip"

NoArchiveOnDisk == \A path \in Paths : path.ext = "" => disk[path] = "absent"

\* The request was turned down: not ok, nothing in flight, nothing done to
\* the outside, status and metadata as they were.
TurnedDown(a) ==
    /\ ~applying'[a].result.ok
    /\ applying'[a].pc = "none"
    /\ ~applying'[a].launched
    /\ applying'[a].effects = << >>
    /\ updateStatus' = updateStatus
    /\ githubUpdateMetadata' = githubUpdateMetadata

\* C22: an install on the feed backend while the status is not downloaded,
\* and an install on the archive backend while no archive is on disk, is
\* turned down.
C22_InstallNeedsDownload ==
    [][ \A a \in ApplyIds :
          /\ (InstallRequested(a) /\ ~ArchiveBackend /\ updateStatus.status # "downloaded")
             => TurnedDown(a)
          /\ (InstallRequested(a) /\ ArchiveBackend /\ NoArchiveOnDisk)
             => TurnedDown(a) ]_vars

\* The archive v1.3.0 was downloaded and then removed; the install asked for
\* while the status still says downloaded found no file.
C22_Witness ==
    /\ updateStatus.source = "github-release-zip"
    /\ updateStatus.status = "downloaded"
    /\ updateStatus.updateFilePath = resolveGitHubUpdateTargetPath(TagNewer)
    /\ \A path \in Paths : disk[path] = "absent"
    /\ applying[1].manual
    /\ applying[1].pc = "none"
    /\ applying[1].result = ApplyResult(FALSE, "noZip", "")

(***************************************************************************)
(* C23                                                                     *)
(***************************************************************************)
\* Call c returns in this step.
CheckReturns(c) == cycles[c].pc # "none" /\ cycles'[c].pc = "none" /\ app'.ready

\* An apply nobody asked for by hand starts expanding in slot a.
UnattendedApplyStarts(a) ==
    /\ applying[a].pc = "none"
    /\ applying'[a].pc = "expanding"
    /\ ~applying'[a].manual

\* C23: a launcher is spawned only by an apply that an install request
\* started, or that the startup check started with autoCheck and
\* autoApplyGithubZip on, a packaged build and an answer that is ok, not
\* up to date and not already applied; a check from updates:check or
\* updates:download starts no apply when it returns.
C23_ApplyNeedsConsent ==
    [][ /\ \A a \in ApplyIds :
             /\ LauncherStarted(a)
                => \/ applying[a].manual
                   \/ /\ updateConfig.autoCheck
                      /\ updateConfig.autoApplyGithubZip
                      /\ app.isPackaged
             /\ UnattendedApplyStarts(a)
                => /\ \E c \in CycleIds : CheckReturns(c) /\ cycles[c].trigger = "startup"
                   /\ updateConfig.autoCheck
                   /\ updateConfig.autoApplyGithubZip
                   /\ app.isPackaged
                   /\ lastReturned'.ok
                   /\ lastReturned'.kind \in {"downloaded", "alreadyDownloaded"}
                   /\ ~lastReturned'.alreadyApplied
        /\ \A c \in CycleIds :
             (CheckReturns(c) /\ cycles[c].trigger \in {"updates:check", "updates:download"})
             => applying' = applying ]_vars

\* The startup check downloaded v1.3.0 and its apply spawned the launcher,
\* no install having been asked for.
C23_Witness ==
    /\ updateConfig.autoCheck /\ updateConfig.autoApplyGithubZip /\ app.isPackaged
    /\ lastReturned.kind = "downloaded"
    /\ applying[MaxApplies].pc = "quitting"
    /\ ~applying[MaxApplies].manual
    /\ applying[MaxApplies].launched
    /\ \A a \in ApplyIds \ {MaxApplies} : applying[a] = NoApply
    /\ githubUpdateMetadata.lastAppliedTag = TagNewer

(***************************************************************************)
(* C24                                                                     *)
(***************************************************************************)
\* The startup check returns in this step with an answer its then() passes
\* on to the apply function.
StartupApplyCalled ==
    /\ \E c \in CycleIds : CheckReturns(c) /\ cycles[c].trigger = "startup"
    /\ updateConfig.autoApplyGithubZip /\ app.isPackaged
    /\ lastReturned'.ok
    /\ lastReturned'.kind \in {"downloaded", "alreadyDownloaded"}
    /\ ~lastReturned'.alreadyApplied

\* C24: an apply called by the startup check for the tag that is the last
\* applied one returns at once, ok, having expanded, spawned, scheduled and
\* broadcast nothing, the status staying what the check left; so no apply
\* that was not asked for by hand ever starts expanding the tag applied
\* last, over any number of launches, while an install asked for by hand
\* does expand it again.
C24_AppliedOncePerTag ==
    [][ /\ (StartupApplyCalled /\ githubUpdateMetadata'.lastAppliedTag = lastReturned'.tag)
           => /\ applying'[MaxApplies].pc = "none"
              /\ applying'[MaxApplies].result \in
                     { ApplyResult(TRUE, "alreadyApplied", ""),
                       ApplyResult(FALSE, "notWindows", "") }
              /\ applying'[MaxApplies].effects = << >>
              /\ ~applying'[MaxApplies].launched
              /\ updateStatus'.status = "downloaded"
        /\ \A a \in ApplyIds :
             /\ UnattendedApplyStarts(a)
                => githubUpdateMetadata'.lastAppliedTag # applying'[a].tag
             /\ (/\ InstallRequested(a) /\ ArchiveBackend
                 /\ applying'[a].tag = githubUpdateMetadata.lastAppliedTag
                 /\ applying'[a].zipPath # NoPath
                 /\ existsSync(disk, applying'[a].zipPath)
                 /\ applying'[a].result.kind # "notWindows")
                => applying'[a].pc = "expanding" ]_vars

\* Second launch: v1.3.0, applied in the first, was removed, downloaded
\* again by the startup check, and not applied again.
C24_Witness ==
    /\ app.launches = 2
    /\ updateConfig.autoApplyGithubZip /\ app.isPackaged
    /\ githubUpdateMetadata.lastAppliedTag = TagNewer
    /\ lastReturned.kind = "downloaded"
    /\ lastReturned.tag = TagNewer
    /\ applying[MaxApplies].result = ApplyResult(TRUE, "alreadyApplied", "")
    /\ applying[MaxApplies].pc = "none"
    /\ updateStatus.status = "downloaded"

(***************************************************************************)
(* C25                                                                     *)
(***************************************************************************)
\* A file that may be launched: a .exe, .cmd or .bat whose name does not
\* contain "uninstall".
QualifiesAsLauncher(file) == IsLauncherCandidate(file) /\ ~NameIncludes(file, "uninstall")

ListedFiles(listing) == { listing[i] : i \in 1..Len(listing) }

\* C25: the launcher picked is a .exe/.cmd/.bat of the highest score, the
\* shortest path among those of that score, never a file whose name
\* contains "uninstall"; with no qualifying file nothing is launched and
\* the apply fails.
C25_UninstallNeverPicked ==
    fnOut.done =>
        LET qualifying == { file \in ListedFiles(fnIn) : QualifiesAsLauncher(file) }
        IN /\ fnOut.ok
              => /\ fnOut.launcher \in qualifying
                 /\ \A other \in qualifying :
                      \/ scoreLauncherCandidate(other) < scoreLauncherCandidate(fnOut.launcher)
                      \/ /\ scoreLauncherCandidate(other) = scoreLauncherCandidate(fnOut.launcher)
                         /\ PathLength(other) >= PathLength(fnOut.launcher)
           /\ qualifying = {} => ~fnOut.ok /\ fnOut.launched = << >>
           /\ \A i \in 1..Len(fnOut.launched) : ~NameIncludes(fnOut.launched[i], "uninstall")

(***************************************************************************)
(* C26                                                                     *)
(***************************************************************************)
\* The slot holds a call of the archive apply, not a feed install.
ArchiveApply(a) == applying[a].zipPath # NoPath

QuitScheduled(a) == \E i \in 1..Len(applying[a].effects) : applying[a].effects[i] = "quit"

\* C26: an archive apply has scheduled app.quit only with its launcher
\* running, and then after the spawn, after recording the applied tag and
\* after broadcasting installing, in that order; an apply that failed has
\* scheduled no quit.
C26_QuitAfterHandOff ==
    \A a \in ApplyIds :
        ArchiveApply(a) =>
            /\ QuitScheduled(a)
               => /\ applying[a].launched
                  /\ applying[a].result.ok
                  /\ applying[a].effects = <<"broadcast", "spawn", "record", "broadcast", "quit">>
                  /\ githubUpdateMetadata.lastAppliedTag = applying[a].tag
            /\ (~applying[a].result.ok \/ ~applying[a].launched) => ~QuitScheduled(a)

(***************************************************************************)
(* C27                                                                     *)
(***************************************************************************)
\* The apply in slot a returns in this step without its launcher running:
\* the expansion failed, there was no launcher, or it could not be spawned.
ApplyFails(a) ==
    /\ applying[a].pc = "expanding"
    /\ applying'[a].pc # "expanding"
    /\ app'.ready
    /\ ~applying'[a].launched

\* C27: an apply that fails returns ok:false, leaves the status error with
\* an error text and the applied tag as it was, and schedules no quit.
C27_FailedApplyLeavesNoTrace ==
    [][ \A a \in ApplyIds :
          ApplyFails(a)
          => /\ ~applying'[a].result.ok
             /\ updateStatus'.status = "error"
             /\ updateStatus'.error
             /\ githubUpdateMetadata'.lastAppliedTag = githubUpdateMetadata.lastAppliedTag
             /\ applying'[a].pc = "none"
             /\ \A i \in 1..Len(applying'[a].effects) : applying'[a].effects[i] # "quit" ]_vars

(***************************************************************************)
(* C28                                                                     *)
(***************************************************************************)
\* The last message sent is the current status, sent to the current window.
LatestPushIsCurrent ==
    updateStatusSent = [window |-> windowsCreated, snapshot |-> updateStatus]

\* C28 as worded: whenever the window exists, the snapshot pushed last, if
\* any was pushed, equals the current status.
C28_CurrentWheneverWindowExists ==
    (mainWindow /\ updateStatusSent.window # 0) => updateStatusSent.snapshot = updateStatus

\* C28, amended: once the window has become ready to show, and before that
\* as soon as a message went to it, the snapshot pushed last is the current
\* status, whole; every change of the status while the window exists is
\* pushed in the step that makes it, so the pushes come in the order of the
\* changes.
C28_LatestPushIsCurrent ==
    /\ [](mainWindow /\ (~readyToShowPending \/ updateStatusSent.window = windowsCreated)
          => LatestPushIsCurrent)
    /\ [][ (mainWindow /\ mainWindow' /\ updateStatus' # updateStatus)
           => /\ updateStatusSent'.snapshot = updateStatus'
              /\ updateStatusSent'.window = windowsCreated'
              /\ DOMAIN updateStatusSent'.snapshot = DOMAIN createInitialUpdateStatus ]_vars

\* A second window, ready, holds the status of a download that ended.
C28_Witness ==
    /\ mainWindow /\ ~readyToShowPending
    /\ windowsCreated = MaxWindows
    /\ updateStatus.status = "downloaded"
    /\ updateStatusSent.window = MaxWindows
    /\ updateStatusSent.snapshot = updateStatus

(***************************************************************************)
(* C29                                                                     *)
(***************************************************************************)
\* The timer's checkForUpdates(false) returns in this step.
TimerTicked ==
    /\ lastReturned' # lastReturned
    /\ lastReturned'.kind \in {"feedCheck", "feedCheckFailed"}

\* C29: at most one interval timer is armed, and one is armed only in a
\* started process with the archive backend off, the electron-updater
\* module present, autoCheck on and a packaged build; an archive check
\* starts only at startup or from updates:check and updates:download, with
\* no timer armed, and a tick of the timer leaves the archive checks alone.
C29_ScheduleOnlyForFeed ==
    /\ [](/\ updateCheckTimer \in {0, 1}
          /\ updateCheckTimer = 1
             => /\ app.ready
                /\ ~updateConfig.useGithubReleaseZip
                /\ app.autoUpdater
                /\ updateConfig.autoCheck
                /\ app.isPackaged)
    /\ [][ /\ \A c \in CycleIds :
                Called(c)
                => /\ updateCheckTimer = 0
                   /\ cycles'[c].trigger \in {"startup", "updates:check", "updates:download"}
           /\ TimerTicked => cycles' = cycles /\ applying' = applying ]_vars

\* A launch on the archive backend started its check; the configuration
\* was then patched to the feed backend, and the timer has ticked.
C29_Witness ==
    /\ updateCheckTimer = 1
    /\ cycles[1].trigger = "startup"
    /\ ~updateConfig.useGithubReleaseZip
    /\ lastReturned.kind = "feedCheck"

(***************************************************************************)
(* C30                                                                     *)
(***************************************************************************)
\* Call c returns in this step because the release fetch threw, the asset
\* fetch failed, or the download did not end with the file.
NetworkFails(c) ==
    \/ Resumes(c) /\ cycles[c].fetched.threw
    \/ cycles[c].pc = "requesting" /\ cycles'[c].pc = "none"
    \/ cycles[c].pc = "streaming" /\ cycles'[c].pc = "none" /\ lastReturned'.kind # "downloaded"

\* C30: a call whose release fetch or asset download fails returns
\* ok:false with the failure, leaves the status error with an error text,
\* and stops nothing: the process and the applies are as they were; a
\* check called while the status is error starts a whole cycle, the status
\* checking and the error gone.
C30_NetworkFailureRecoverable ==
    [][ \A c \in CycleIds :
          /\ NetworkFails(c)
             => /\ cycles'[c] = NoCycle
                /\ ~lastReturned'.ok
                /\ lastReturned'.kind \in {"fetchFailed", "downloadFailed"}
                /\ updateStatus'.status = "error"
                /\ updateStatus'.error
                /\ app' = app
                /\ applying' = applying
          /\ (Called(c) /\ updateStatus.status = "error")
             => /\ updateStatus'.status = "checking"
                /\ ~updateStatus'.error
                /\ cycles'[c].pc = "fetching" ]_vars

\* After a download that failed, a later call is downloading again.
C30_Witness ==
    /\ lastReturned.kind = "downloadFailed"
    /\ ~lastReturned.ok
    /\ \E c \in CycleIds : cycles[c].pc = "streaming"
    /\ updateStatus.status = "downloading"
    /\ ~updateStatus.error

(***************************************************************************)
(* C31                                                                     *)
(***************************************************************************)
\* path lies below dir, and is not dir itself.
StrictlyInside(path, dir) ==
    /\ Len(path) > Len(dir)
    /\ SubSeq(path, 1, Len(dir)) = dir

\* C31: for every tag, the path of the archive and the staging directory
\* lie strictly inside the updates directory.
C31_PathsStayInUpdatesDir ==
    fnOut.done =>
        /\ StrictlyInside(fnOut.target, getGitHubUpdateDownloadDir)
        /\ StrictlyInside(fnOut.staging, getGitHubUpdateDownloadDir)

\* The statuses of an update in progress or on offer.
ProgressStatuses == {"checking", "available", "downloading", "downloaded", "installing"}

\* C32: whenever the status is error the error text is set, and whenever the
\* status is checking, available, downloading, downloaded or installing the
\* error text is null.
C32_ErrorTextMatchesStatus ==
    /\ updateStatus.status = "error" => updateStatus.error
    /\ updateStatus.status \in ProgressStatuses => ~updateStatus.error

\* A check that started after a failed one: the status is checking and the
\* error of the failure is gone.
C32_Witness ==
    /\ updateStatus.status = "checking"
    /\ ~updateStatus.error
    /\ ~lastReturned.ok
    /\ lastReturned.kind # ""
    /\ \E c \in CycleIds : cycles[c].pc # "none"

(***************************************************************************)
(* C33                                                                     *)
(***************************************************************************)
\* The download of call c returns in this step with the archive renamed
\* into place, and the metadata records tag, path and size and nothing else.
RecordsDownload(c) ==
    /\ DownloadReturns(c)
    /\ lastReturned'.ok
    /\ disk'[githubUpdateMetadata'.filePath] # "absent"
    /\ githubUpdateMetadata'.lastTag = cycles[c].tag
    /\ githubUpdateMetadata'.lastAppliedTag = githubUpdateMetadata.lastAppliedTag

\* The apply in slot a has its launcher running in this step, and the
\* metadata records the applied tag and nothing else.
RecordsApply(a) ==
    /\ applying[a].pc = "expanding"
    /\ applying'[a].launched
    /\ githubUpdateMetadata' = [githubUpdateMetadata EXCEPT !.lastAppliedTag = applying[a].tag]

\* C33: the metadata changes only in a step where a download completed and
\* was renamed into place (tag, path and size) or where a launcher was
\* spawned (applied tag); every other step of a check or an apply leaves it
\* exactly as it was.
C33_MetadataOnlyOnSuccess ==
    [][ githubUpdateMetadata' # githubUpdateMetadata
        => \/ \E c \in CycleIds : RecordsDownload(c)
           \/ \E a \in ApplyIds : RecordsApply(a) ]_vars

(***************************************************************************)
(* C34                                                                     *)
(***************************************************************************)
\* C34: whenever the status is disabled, the archive backend is switched
\* off and the feed updater is unavailable, after startup and after any
\* sequence of configuration patches.
C34_DisabledOnlyWithoutBackend ==
    updateStatus.status = "disabled"
    => /\ ~updateConfig.useGithubReleaseZip
       /\ ~app.autoUpdater

(***************************************************************************)
(* C35                                                                     *)
(***************************************************************************)
\* The archive at path is the one downloaded for a release tag whose version
\* is the one the status shows.
DownloadedForShownVersion(path) ==
    \E tag \in ReleaseTags :
        /\ path = resolveGitHubUpdateTargetPath(tag)
        /\ VersionOrTag(tag) = updateStatus.availableVersion

\* C35: whenever an install on the archive backend starts expanding an
\* archive while the status shows a version, that archive is the file
\* downloaded for the release tag whose version availableVersion shows when
\* the install is requested.
C35_InstallLaunchesAdvertised ==
    [][ \A a \in ApplyIds :
          ( /\ InstallRequested(a) /\ ArchiveBackend /\ InstallStarts(a)
            /\ updateStatus.availableVersion # NoVersion )
          => DownloadedForShownVersion(applying'[a].zipPath) ]_vars

(***************************************************************************)
(* C36                                                                     *)
(***************************************************************************)
\* The archive apply in slot a has its launcher running and the quit
\* scheduled.
LauncherRunning(a) ==
    /\ ArchiveApply(a)
    /\ applying[a].pc = "quitting"
    /\ applying[a].launched

\* C36: within one process lifetime at most one apply has spawned a
\* launcher, whatever installs and startup applies arrive before the
\* process exits.
C36_OneLauncherPerLifetime ==
    \A a, b \in ApplyIds : (LauncherRunning(a) /\ LauncherRunning(b)) => a = b

(***************************************************************************)
(* C37                                                                     *)
(***************************************************************************)
\* By how much the counter goes up in this step.
CounterDelta(key) == privacyStats'[key] - privacyStats[key]

OneIf(event) == IF event THEN 1 ELSE 0

TransientStatus == updateStatus.status \in {"checking", "downloading"}

\* C38: when every external call of every started check returns or fails,
\* a status of checking or downloading is always followed by one that is
\* neither, also with overlapping checks; and each check, when it returns,
\* leaves the status idle, available, downloaded or error.
C38_NoStuckTransientStatus ==
    /\ TransientStatus ~> ~TransientStatus
    /\ [][ \A c \in CycleIds :
             CheckReturns(c)
             => updateStatus'.status \in {"idle", "available", "downloaded", "error"} ]_vars

\* One of two overlapping checks has returned with its download while the
\* other is still streaming: the status is downloaded.
C38_Witness ==
    /\ cycles[1].pc = "none"
    /\ cycles[2].pc = "streaming"
    /\ lastReturned.kind = "downloaded"
    /\ updateStatus.status = "downloaded"

(***************************************************************************)
(* C39                                                                     *)
(***************************************************************************)
\* C39: whenever the archive backend's status is downloaded, updateFilePath
\* is set and is the metadata's filePath, downloadedVersion is set and is
\* availableVersion, and the metadata's lastTag is the tag of that version.
C39_DownloadedStateConsistent ==
    (ArchiveBackend /\ updateStatus.status = "downloaded")
    => /\ updateStatus.updateFilePath # NoPath
       /\ updateStatus.updateFilePath = githubUpdateMetadata.filePath
       /\ updateStatus.downloadedVersion # NoVersion
       /\ updateStatus.downloadedVersion = updateStatus.availableVersion
       /\ VersionOrTag(githubUpdateMetadata.lastTag) = updateStatus.availableVersion

\* A later check found the release of the archive already on disk: the
\* status is downloaded again, from the metadata.
C39_Witness ==
    /\ ArchiveBackend
    /\ updateStatus.status = "downloaded"
    /\ lastReturned.kind = "alreadyDownloaded"
    /\ githubUpdateMetadata.lastTag = TagNewer
    /\ updateStatus.updateFilePath = resolveGitHubUpdateTargetPath(TagNewer)

(***************************************************************************)
(* C40                                                                     *)
(***************************************************************************)
\* closeTab ran in this step on the open tab tabId.
Closes(tabId) ==
    /\ called'.op = "closeTab"
    /\ called'.arg = tabId
    /\ tabId \in OpenIds(state.tabs)

\* C40: after initialisation and after any sequence of createTab, closeTab,
\* activateTab, activateTabByIndex and reopenLastClosedTab there are between
\* 1 and MAX_TABS open tabs, no two with the same id, activeTabId is the id
\* of an open tab and the closed-tab stack holds at most MAX_CLOSED_TABS
\* entries; closing the last tab opens a fresh one and makes it active, and
\* closing a tab that is not active removes it and leaves the active tab
\* unchanged.
C40_TabListInvariant ==
    /\ [](Initialised
           => /\ Len(state.tabs) >= 1
              /\ Len(state.tabs) <= MAX_TABS
              /\ Cardinality(OpenIds(state.tabs)) = Len(state.tabs)
              /\ state.activeTabId \in OpenIds(state.tabs)
              /\ Len(state.closedTabs) <= MAX_CLOSED_TABS)
    /\ [][ \A tabId \in TabIds :
             Closes(tabId)
             => /\ tabId \notin OpenIds(state'.tabs)
                /\ Len(state.tabs) = 1
                   => /\ Len(state'.tabs) = 1
                      /\ state'.activeTabId = state'.tabs[1]
                /\ state.activeTabId # tabId
                   => /\ state'.activeTabId = state.activeTabId
                      /\ Len(state'.tabs) = Len(state.tabs) - 1 ]_vars

\* The only open tab was just closed, with the closed-tab stack full: one
\* fresh tab is open and active.
C40_Witness ==
    /\ called.op = "closeTab"
    /\ Len(state.tabs) = 1
    /\ state.tabs[1] # called.arg
    /\ state.activeTabId = state.tabs[1]
    /\ Len(state.closedTabs) = MAX_CLOSED_TABS
====
